---------------------------- MODULE Spec2Model ----------------------------
(***************************************************************************)
(* A model of the address-cleanser pipeline: preprocessing, the tagger     *)
(* adapter with its retry ladder, the confidence scorer, the component     *)
(* normalizer, the validator and the USPS formatter, as sequenced by the   *)
(* CLI's process_single_address.                                           *)
(*                                                                         *)
(* Strings are TLA+ strings handled character by character (Len, SubSeq    *)
(* and \o), so cleaning, regex rewriting and joining are computed, never   *)
(* assumed.  Confidence scores are kept in tenths of a point (575 stands   *)
(* for 57.5), which makes every score of the program an integer.           *)
(* Python dicts are functions whose DOMAIN is the set of keys present.     *)
(***************************************************************************)
EXTENDS Integers, Sequences, FiniteSets, TLC

-----------------------------------------------------------------------------
(* Python values and strings *)

\* A Python value handed to the pipeline: a str, None, an int, or an object
\* without a truth value.
StrVal(s) == [t |-> "str", s |-> s, n |-> 0]

NoneVal == [t |-> "none", s |-> "", n |-> 0]

IntVal(n) == [t |-> "int", s |-> "", n |-> n]

\* An object whose truth value cannot be taken: bool(x) raises TypeError, as
\* it does for pandas.NA.
NAVal == [t |-> "na", s |-> "", n |-> 0]

\* `not x` raises instead of giving a truth value.
TruthRaises(v) == v.t = "na"

\* Python truthiness (`not x` is ~Truthy(x)), where the truth value exists.
Truthy(v) ==
    CASE v.t = "str" -> v.s # ""
      [] v.t = "int" -> v.n # 0
      [] OTHER -> FALSE

IsInstanceStr(v) == v.t = "str"

Digits == "0123456789"

LowerChars == "abcdefghijklmnopqrstuvwxyz"

UpperChars == "ABCDEFGHIJKLMNOPQRSTUVWXYZ"

Chars(s) == {SubSeq(s, i, i) : i \in 1..Len(s)}

DigitSet == Chars(Digits)

\* The characters Python's \s and str.split() treat as whitespace.
WhitespaceSet == {" ", "\t"}

\* The characters Python's \w matches.
WordCharSet == Chars(Digits) \cup Chars(LowerChars) \cup Chars(UpperChars) \cup {"_"}

At(s, i) == SubSeq(s, i, i)

Max(a, b) == IF a >= b THEN a ELSE b

Min(a, b) == IF a <= b THEN a ELSE b

RECURSIVE IntToStr(_)
\* str(n) for a non-negative int.
IntToStr(n) ==
    IF n < 10 THEN At(Digits, n + 1)
    ELSE IntToStr(n \div 10) \o At(Digits, (n % 10) + 1)

\* str(v)
PyStr(v) ==
    CASE v.t = "str" -> v.s
      [] v.t = "int" -> IntToStr(v.n)
      [] OTHER -> "None"

LowerSet == Chars(LowerChars)

UpperChar(c) ==
    IF c \in LowerSet
    THEN At(UpperChars, CHOOSE i \in 1..Len(LowerChars) : At(LowerChars, i) = c)
    ELSE c

\* The member of a set of one.
Only(S) == CHOOSE x \in S : TRUE

RECURSIVE Concat(_)
\* ''.join(parts).  The sequence is halved at every step, which keeps the
\* evaluation shallow.
Concat(parts) ==
    Only(UNION { IF Len(p) = 0 THEN {""}
                 ELSE IF Len(p) = 1 THEN {p[1]}
                      ELSE { Concat(SubSeq(p, 1, h)) \o Concat(SubSeq(p, h + 1, Len(p))) :
                               h \in {Len(p) \div 2} } :
                 p \in {parts} })

\* The string whose characters are F of the characters of s, in order
\* (F of a character is a string, possibly empty).
MapChars(s, F(_)) ==
    Only({ Concat([i \in 1..Len(t) |-> F(At(t, i))]) : t \in {s} })

\* str.upper()
StrUpper(s) == MapChars(s, UpperChar)

\* The smallest member of a non-empty set of integers.
MinOf(S) == CHOOSE i \in S : \A j \in S : i <= j

\* The positions of s that hold no whitespace.
NonWs(s) == {i \in 1..Len(s) : At(s, i) \notin WhitespaceSet}

\* str.strip()
StrStrip(s) ==
    Only({ IF inner = {} THEN ""
           ELSE SubSeq(s, MinOf(inner), CHOOSE i \in inner : \A j \in inner : j <= i) :
           inner \in {NonWs(s)} })

\* str.split(): the maximal runs of non-whitespace characters, in order.
RECURSIVE SplitFrom(_, _)
SplitFrom(s, i) ==
    Only(UNION { IF rest = {} THEN {<<>>}
                ELSE UNION { { <<SubSeq(s, first, stop - 1)>> \o SplitFrom(s, stop) :
                                 stop \in { IF \E j \in first..Len(s) : At(s, j) \in WhitespaceSet
                                            THEN MinOf({j \in first..Len(s) :
                                                           At(s, j) \in WhitespaceSet})
                                            ELSE Len(s) + 1 } } :
                             first \in {MinOf(rest)} } :
                rest \in {{j \in i..Len(s) : At(s, j) \notin WhitespaceSet}} })

SplitWs(s) == SplitFrom(s, 1)

RECURSIVE Join(_, _)
\* sep.join(parts)
Join(sep, parts) ==
    IF parts = <<>> THEN ""
    ELSE IF Len(parts) = 1 THEN parts[1]
         ELSE parts[1] \o sep \o Join(sep, Tail(parts))

\* s starts with lit at position i
MatchLit(s, i, lit) ==
    /\ i + Len(lit) - 1 <= Len(s)
    /\ SubSeq(s, i, i + Len(lit) - 1) = lit

\* The same under re.IGNORECASE, for an uppercase lit.
MatchLitI(s, i, lit) ==
    /\ i + Len(lit) - 1 <= Len(s)
    /\ (Len(lit) > 0 => UpperChar(At(s, i)) = At(lit, 1))
    /\ StrUpper(SubSeq(s, i, i + Len(lit) - 1)) = lit

\* sub in s
Contains(s, sub) == \E i \in 1..(Len(s) + 1) : MatchLit(s, i, sub)

\* Length of the whitespace run of s that starts at position i (regex \s*).
WsRun(s, i) ==
    LET stop == {j \in i..Len(s) : At(s, j) \notin WhitespaceSet}
    IN IF stop = {} THEN Max(0, Len(s) + 1 - i) ELSE MinOf(stop) - i

\* Regex \b at the gap before position i of s.
WordBoundary(s, i) ==
    LET before == i > 1 /\ At(s, i - 1) \in WordCharSet
        after == i <= Len(s) /\ At(s, i) \in WordCharSet
    IN before # after

RECURSIVE ReSub(_, _, _, _)
\* re.sub(pattern, repl, s) from position i on: the leftmost matches, not
\* overlapping, each replaced by repl.  M(s, i) is the length of the
\* pattern's match at position i, 0 for none (no pattern here matches the
\* empty string).  Each step goes to the next match.
ReSub(s, i, M(_, _), repl) ==
    Only(UNION { IF found = {} THEN {SubSeq(s, i, Len(s))}
                 ELSE UNION { { SubSeq(s, i, j - 1) \o repl \o ReSub(s, next, M, repl) :
                                  next \in {j + M(s, j)} } :
                              j \in {MinOf(found)} } :
                 found \in {{j \in i..Len(s) : M(s, j) > 0}} })

RECURSIVE MatchParts(_, _, _)
\* Where the match of a pattern that starts at position i ends (the position
\* after it), 0 when it does not match.  The pattern is a sequence of parts:
\* <<"lit", X>> is the text X under re.IGNORECASE, <<"opt", X>> is X?, and
\* <<"ws", "">> is \s*.
MatchParts(s, i, parts) ==
    IF parts = <<>> THEN i
    ELSE LET p == parts[1]
         IN CASE p[1] = "lit" ->
                   IF MatchLitI(s, i, p[2])
                   THEN MatchParts(s, i + Len(p[2]), Tail(parts)) ELSE 0
              [] p[1] = "opt" ->
                   IF MatchLit(s, i, p[2])
                   THEN MatchParts(s, i + Len(p[2]), Tail(parts))
                   ELSE MatchParts(s, i, Tail(parts))
              [] OTHER -> MatchParts(s, i + WsRun(s, i), Tail(parts))

\* The length of the match of \b<parts>\b at position i, 0 for none.
MatchBounded(s, i, parts) ==
    IF ~WordBoundary(s, i) THEN 0
    ELSE Only({ IF e > 0 /\ WordBoundary(s, e) THEN e - i ELSE 0 :
                  e \in {MatchParts(s, i, parts)} })

\* re.sub(r'\b<parts>\b', repl, s, flags=re.IGNORECASE)
SubBounded(s, parts, repl) ==
    LET M(t, i) == MatchBounded(t, i, parts) IN ReSub(s, 1, M, repl)

\* re.sub(r'\bWORD\b', repl, s, flags=re.IGNORECASE)
SubWord(s, word, repl) == SubBounded(s, << <<"lit", word>> >>, repl)

\* The match of \s*,\s* at position i.
MatchComma(s, i) ==
    Only({ IF i + w <= Len(s) /\ At(s, i + w) = ","
           THEN w + 1 + WsRun(s, i + w + 1)
           ELSE 0 :
           w \in {WsRun(s, i)} })

\* re.sub(r'\s*,\s*', ', ', s)
SubCommaSpacing(s) == ReSub(s, 1, MatchComma, ", ")

\* clean_string(text)
clean_string(text) ==
    IF ~Truthy(text) THEN ""
    ELSE Only({ StrUpper(joined) :
                  joined \in { Join(" ", words) :
                      words \in { SplitWs(stripped) :
                          stripped \in { StrStrip(t) : t \in {PyStr(text)} } } } })

-----------------------------------------------------------------------------
(* parser.py: preprocessing *)

\* The whole-word replacements of handle_edge_cases, in the dict's order.
replacements ==
    << <<"STREET", "ST">>, <<"AVENUE", "AVE">>, <<"BOULEVARD", "BLVD">>,
       <<"ROAD", "RD">>, <<"DRIVE", "DR">>, <<"LANE", "LN">>,
       <<"COURT", "CT">>, <<"PLACE", "PL">>, <<"NORTH", "N">>,
       <<"SOUTH", "S">>, <<"EAST", "E">>, <<"WEST", "W">>,
       <<"APARTMENT", "APT">>, <<"SUITE", "STE">>, <<"UNIT", "UNIT">>,
       <<"FLOOR", "FL">> >>

\* The PO Box patterns of handle_edge_cases, in the list's order.
po_box_patterns ==
    << << <<"lit", "P">>, <<"opt", ".">>, <<"lit", "O">>, <<"opt", ".">>,
          <<"ws", "">>, <<"lit", "BOX">> >>,
       << <<"lit", "POST">>, <<"ws", "">>, <<"lit", "OFFICE">>, <<"ws", "">>,
          <<"lit", "BOX">> >>,
       << <<"lit", "PO">>, <<"ws", "">>, <<"lit", "BOX">> >> >>

RECURSIVE ApplyReplacements(_, _)
ApplyReplacements(s, reps) ==
    IF reps = <<>> THEN s
    ELSE Only({ ApplyReplacements(replaced, Tail(reps)) :
                  replaced \in {SubWord(s, reps[1][1], reps[1][2])} })

RECURSIVE ApplyPoBoxPatterns(_, _)
ApplyPoBoxPatterns(s, pats) ==
    IF pats = <<>> THEN s
    ELSE Only({ ApplyPoBoxPatterns(replaced, Tail(pats)) :
                  replaced \in {SubBounded(s, pats[1], "PO BOX")} })

\* handle_edge_cases(address)
handle_edge_cases(address) ==
    IF ~Truthy(address) THEN ""
    ELSE Only({ ApplyPoBoxPatterns(spaced, po_box_patterns) :
                  spaced \in { SubCommaSpacing(replaced) :
                      replaced \in { ApplyReplacements(cleaned, replacements) :
                          cleaned \in {clean_string(address)} } } })

(* Python dicts *)

EmptyDict == <<>>

\* d.get(k, default)
Get(d, k, default) == IF k \in DOMAIN d THEN d[k] ELSE default

\* d[k] = v
Put(d, k, v) == [j \in DOMAIN d \cup {k} |-> IF j = k THEN v ELSE d[j]]

\* The value a pair table gives for key k (the table holds k once).
Lookup(table, k) == (CHOOSE p \in table : p[1] = k)[2]

Keys(table) == {p[1] : p \in table}

-----------------------------------------------------------------------------
(* validator.py *)

VALID_STATES ==
    {
      "AL", "AK", "AZ", "AR", "CA", "CO", "CT", "DE", "FL", "GA",
      "HI", "ID", "IL", "IN", "IA", "KS", "KY", "LA", "ME", "MD",
      "MA", "MI", "MN", "MS", "MO", "MT", "NE", "NV", "NH", "NJ",
      "NM", "NY", "NC", "ND", "OH", "OK", "OR", "PA", "RI", "SC",
      "SD", "TN", "TX", "UT", "VT", "VA", "WA", "WV", "WI", "WY",
      "DC", "AS", "GU", "MP", "PR", "VI" }

STATE_NAME_TO_ABBREV ==
    {
      <<"ALABAMA", "AL">>, <<"ALASKA", "AK">>, <<"ARIZONA", "AZ">>,
      <<"ARKANSAS", "AR">>, <<"CALIFORNIA", "CA">>, <<"COLORADO", "CO">>,
      <<"CONNECTICUT", "CT">>, <<"DELAWARE", "DE">>, <<"FLORIDA", "FL">>,
      <<"GEORGIA", "GA">>, <<"HAWAII", "HI">>, <<"IDAHO", "ID">>,
      <<"ILLINOIS", "IL">>, <<"INDIANA", "IN">>, <<"IOWA", "IA">>,
      <<"KANSAS", "KS">>, <<"KENTUCKY", "KY">>, <<"LOUISIANA", "LA">>,
      <<"MAINE", "ME">>, <<"MARYLAND", "MD">>, <<"MASSACHUSETTS", "MA">>,
      <<"MICHIGAN", "MI">>, <<"MINNESOTA", "MN">>, <<"MISSISSIPPI", "MS">>,
      <<"MISSOURI", "MO">>, <<"MONTANA", "MT">>, <<"NEBRASKA", "NE">>,
      <<"NEVADA", "NV">>, <<"NEW HAMPSHIRE", "NH">>, <<"NEW JERSEY", "NJ">>,
      <<"NEW MEXICO", "NM">>, <<"NEW YORK", "NY">>, <<"NORTH CAROLINA", "NC">>,
      <<"NORTH DAKOTA", "ND">>, <<"OHIO", "OH">>, <<"OKLAHOMA", "OK">>,
      <<"OREGON", "OR">>, <<"PENNSYLVANIA", "PA">>, <<"RHODE ISLAND", "RI">>,
      <<"SOUTH CAROLINA", "SC">>, <<"SOUTH DAKOTA", "SD">>, <<"TENNESSEE", "TN">>,
      <<"TEXAS", "TX">>, <<"UTAH", "UT">>, <<"VERMONT", "VT">>,
      <<"VIRGINIA", "VA">>, <<"WASHINGTON", "WA">>, <<"WEST VIRGINIA", "WV">>,
      <<"WISCONSIN", "WI">>, <<"WYOMING", "WY">>, <<"DISTRICT OF COLUMBIA", "DC">>,
      <<"AMERICAN SAMOA", "AS">>, <<"GUAM", "GU">>, <<"NORTHERN MARIANA ISLANDS", "MP">>,
      <<"PUERTO RICO", "PR">>, <<"VIRGIN ISLANDS", "VI">> }

\* re.sub(r'[^\d-]', '', s)
KeepZipChars(s) ==
    LET keep(c) == IF c \in DigitSet \cup {"-"} THEN c ELSE ""
    IN MapChars(s, keep)

AllDigits(s) == \A i \in 1..Len(s) : At(s, i) \in DigitSet

\* validate_zip_code without line 55's re.sub: the trimmed text itself is
\* matched against the two formats.
validate_zip_code_NoCleaning(zip_code) ==
    IF zip_code = "" THEN [ok |-> FALSE, msg |-> "ZIP code is missing"]
    ELSE LET cleaned_zip == StrStrip(zip_code)
         IN IF \/ Len(cleaned_zip) = 5 /\ AllDigits(cleaned_zip)
               \/ /\ Len(cleaned_zip) = 10
                  /\ AllDigits(SubSeq(cleaned_zip, 1, 5))
                  /\ At(cleaned_zip, 6) = "-"
                  /\ AllDigits(SubSeq(cleaned_zip, 7, 10))
            THEN [ok |-> TRUE, msg |-> ""]
            ELSE [ok |-> FALSE,
                  msg |-> "Invalid ZIP code format: " \o zip_code
                          \o ". Expected 5 digits or ZIP+4 format (12345-6789)"]

\* validate_zip_code(zip_code): (is_valid, error_message)
validate_zip_code(zip_code) ==
    IF zip_code = "" THEN [ok |-> FALSE, msg |-> "ZIP code is missing"]
    ELSE LET cleaned_zip == KeepZipChars(StrStrip(zip_code))
         IN IF Len(cleaned_zip) = 5 /\ AllDigits(cleaned_zip)
            THEN [ok |-> TRUE, msg |-> ""]
            ELSE IF /\ Len(cleaned_zip) = 10
                    /\ AllDigits(SubSeq(cleaned_zip, 1, 5))
                    /\ At(cleaned_zip, 6) = "-"
                    /\ AllDigits(SubSeq(cleaned_zip, 7, 10))
                 THEN [ok |-> TRUE, msg |-> ""]
                 ELSE [ok |-> FALSE,
                       msg |-> "Invalid ZIP code format: " \o zip_code
                               \o ". Expected 5 digits or ZIP+4 format (12345-6789)"]

\* validate_state without line 82's upper() and strip(): the text is looked
\* up as it was given.
validate_state_AsGiven(state) ==
    IF state = "" THEN [ok |-> FALSE, msg |-> "State is missing"]
    ELSE IF state \in VALID_STATES \cup Keys(STATE_NAME_TO_ABBREV)
         THEN [ok |-> TRUE, msg |-> ""]
         ELSE [ok |-> FALSE,
               msg |-> "Invalid state: " \o state
                       \o ". Must be a valid US state abbreviation or name"]

\* validate_state(state): (is_valid, error_message)
validate_state(state) ==
    IF state = "" THEN [ok |-> FALSE, msg |-> "State is missing"]
    ELSE LET state_upper == StrStrip(StrUpper(state))
         IN IF state_upper \in VALID_STATES THEN [ok |-> TRUE, msg |-> ""]
            ELSE IF state_upper \in Keys(STATE_NAME_TO_ABBREV)
                 THEN [ok |-> TRUE, msg |-> ""]
                 ELSE [ok |-> FALSE,
                       msg |-> "Invalid state: " \o state
                               \o ". Must be a valid US state abbreviation or name"]

required_fields == <<"street_number", "street_name", "city", "state">>

po_box_required == <<"po_box", "city", "state">>

\* [field for field in fields if not address_dict.get(field)]
MissingOf(address_dict, fields) ==
    SelectSeq(fields, LAMBDA f : Get(address_dict, f, "") = "")

\* A plausible slip: a PO Box alone makes the address complete.
validate_address_completeness_PoBoxOnly(address_dict) ==
    IF DOMAIN address_dict = {}
    THEN [is_complete |-> FALSE, missing |-> required_fields]
    ELSE LET missing_fields == MissingOf(address_dict, required_fields)
         IN IF Get(address_dict, "po_box", "") # ""
            THEN [is_complete |-> TRUE, missing |-> <<>>]
            ELSE [is_complete |-> missing_fields = <<>>, missing |-> missing_fields]

\* validate_address_completeness(address_dict): (is_complete, missing_fields)
validate_address_completeness(address_dict) ==
    IF DOMAIN address_dict = {}
    THEN [is_complete |-> FALSE, missing |-> required_fields]
    ELSE LET missing_fields == MissingOf(address_dict, required_fields)
         IN IF /\ Get(address_dict, "po_box", "") # ""
               /\ MissingOf(address_dict, po_box_required) = <<>>
            THEN [is_complete |-> TRUE, missing |-> <<>>]
            ELSE [is_complete |-> missing_fields = <<>>, missing |-> missing_fields]

\* The adjustments calculate_confidence_score sums, in tenths.
Adjustments(validations) ==
    (IF Get(validations, "zip_valid", FALSE) THEN 100 ELSE -200)
    + (IF Get(validations, "state_valid", FALSE) THEN 100 ELSE -200)
    + (IF Get(validations, "is_complete", FALSE) THEN 150 ELSE -250)

\* A plausible slip: the upper clamp alone.
calculate_confidence_score_NoFloor(parsed, validations) ==
    IF DOMAIN parsed = {} \/ DOMAIN validations = {} THEN 0
    ELSE Min(1000, Get(parsed, "confidence", 0) + Adjustments(validations))

\* calculate_confidence_score(parsed, validations), in tenths
calculate_confidence_score(parsed, validations) ==
    IF DOMAIN parsed = {} \/ DOMAIN validations = {} THEN 0
    ELSE LET base_confidence == Get(parsed, "confidence", 0)
             final_score == base_confidence + Adjustments(validations)
         IN Max(0, Min(1000, final_score))

\* A plausible slip: overall validity leaves completeness out.
OverallValid_NoCompleteness(zip_valid, state_valid, is_complete) ==
    zip_valid /\ state_valid

\* valid = zip_valid and state_valid and is_complete
OverallValid(zip_valid, state_valid, is_complete) ==
    zip_valid /\ state_valid /\ is_complete

\* validate_address with the state checked, and its message appended,
\* before the ZIP code.
validate_address_StateFirst(address_dict) ==
    IF DOMAIN address_dict = {}
    THEN [valid |-> FALSE, zip_valid |-> FALSE, state_valid |-> FALSE,
          is_complete |-> FALSE, confidence |-> 0,
          issues |-> <<"Address dictionary is empty">>]
    ELSE LET zip == validate_zip_code(Get(address_dict, "zip_code", ""))
             state == validate_state(Get(address_dict, "state", ""))
             comp == validate_address_completeness(address_dict)
             issues ==
                 (IF state.ok THEN <<>> ELSE <<state.msg>>)
                 \o (IF zip.ok THEN <<>> ELSE <<zip.msg>>)
                 \o (IF comp.is_complete THEN <<>>
                     ELSE <<"Missing required fields: " \o Join(", ", comp.missing)>>)
             confidence ==
                 calculate_confidence_score(address_dict,
                     [zip_valid |-> zip.ok, state_valid |-> state.ok,
                      is_complete |-> comp.is_complete])
         IN [valid |-> OverallValid(zip.ok, state.ok, comp.is_complete),
             zip_valid |-> zip.ok,
             state_valid |-> state.ok,
             is_complete |-> comp.is_complete,
             confidence |-> confidence,
             issues |-> issues,
             missing_fields |-> IF comp.is_complete THEN <<>> ELSE comp.missing]

\* validate_address(address_dict)
validate_address(address_dict) ==
    IF DOMAIN address_dict = {}
    THEN [valid |-> FALSE, zip_valid |-> FALSE, state_valid |-> FALSE,
          is_complete |-> FALSE, confidence |-> 0,
          issues |-> <<"Address dictionary is empty">>]
    ELSE LET zip == validate_zip_code(Get(address_dict, "zip_code", ""))
             state == validate_state(Get(address_dict, "state", ""))
             comp == validate_address_completeness(address_dict)
             issues ==
                 (IF zip.ok THEN <<>> ELSE <<zip.msg>>)
                 \o (IF state.ok THEN <<>> ELSE <<state.msg>>)
                 \o (IF comp.is_complete THEN <<>>
                     ELSE <<"Missing required fields: " \o Join(", ", comp.missing)>>)
             confidence ==
                 calculate_confidence_score(address_dict,
                     [zip_valid |-> zip.ok, state_valid |-> state.ok,
                      is_complete |-> comp.is_complete])
         IN [valid |-> OverallValid(zip.ok, state.ok, comp.is_complete),
             zip_valid |-> zip.ok,
             state_valid |-> state.ok,
             is_complete |-> comp.is_complete,
             confidence |-> confidence,
             issues |-> issues,
             missing_fields |-> IF comp.is_complete THEN <<>> ELSE comp.missing]

-----------------------------------------------------------------------------
(* parser.py: the confidence scorer and the component normalizer *)

\* sum(1 for field in fields if field in parsed_components)
CountPresent(parsed_components, fields) ==
    Cardinality({f \in fields : f \in DOMAIN parsed_components})

\* _calculate_parsing_confidence(parsed_components, address_type), in tenths
_calculate_parsing_confidence(parsed_components, address_type) ==
    IF DOMAIN parsed_components = {} THEN 0
    ELSE LET required_present ==
                 CountPresent(parsed_components,
                     {"AddressNumber", "StreetName", "PlaceName", "StateName"})
             optional_present ==
                 CountPresent(parsed_components, {"ZipCode", "StreetNamePostModifier"})
             bonus ==
                 IF /\ address_type = "PO Box"
                    /\ "POBox" \in DOMAIN parsed_components
                    /\ "PlaceName" \in DOMAIN parsed_components
                 THEN 100 ELSE 0
         IN Min(500 + (required_present * 300) \div 4
                    + (optional_present * 200) \div 2 + bonus, 1000)

\* field_mapping of normalize_components, in the dict's order.
field_mapping ==
    << <<"AddressNumber", "street_number">>,
       <<"StreetName", "street_name">>,
       <<"StreetNamePreDirectional", "street_directional_prefix">>,
       <<"StreetNamePostDirectional", "street_directional_suffix">>,
       <<"StreetNamePostModifier", "street_type">>,
       <<"StreetNamePostType", "street_type">>,
       <<"OccupancyType", "unit_type">>,
       <<"OccupancyIdentifier", "unit_number">>,
       <<"PlaceName", "city">>,
       <<"StateName", "state">>,
       <<"ZipCode", "zip_code">>,
       <<"ZipPlus4", "zip_plus4">>,
       <<"POBox", "po_box">>,
       <<"USPSBoxID", "po_box">>,
       <<"USPSBoxType", "po_box_type">> >>

RECURSIVE MapFields_FirstBoxValueStays(_, _, _)
\* The loop of normalize_components without the elif branch of lines 102-103:
\* a box identifier does not replace a po_box that is already set.
MapFields_FirstBoxValueStays(parsed, entries, normalized) ==
    IF entries = <<>> THEN normalized
    ELSE LET usaddress_label == entries[1][1]
             our_field == entries[1][2]
             value == Get(parsed, usaddress_label, "")
             next ==
                 IF usaddress_label \notin DOMAIN parsed \/ value = ""
                 THEN normalized
                 ELSE IF usaddress_label \in {"USPSBoxID", "USPSBoxType"}
                      THEN IF "po_box" \notin DOMAIN normalized
                           THEN Put(normalized, "po_box", clean_string(StrVal(value)))
                           ELSE normalized
                      ELSE Put(normalized, our_field, clean_string(StrVal(value)))
         IN MapFields_FirstBoxValueStays(parsed, Tail(entries), next)

RECURSIVE MapFields(_, _, _)
\* The loop of normalize_components over the entries of field_mapping that
\* are left, normalized being the dict built so far.
MapFields(parsed, entries, normalized) ==
    IF entries = <<>> THEN normalized
    ELSE LET usaddress_label == entries[1][1]
             our_field == entries[1][2]
             value == Get(parsed, usaddress_label, "")
             next ==
                 IF usaddress_label \notin DOMAIN parsed \/ value = ""
                 THEN normalized
                 ELSE IF usaddress_label \in {"USPSBoxID", "USPSBoxType"}
                      THEN IF "po_box" \notin DOMAIN normalized
                           THEN Put(normalized, "po_box", clean_string(StrVal(value)))
                           ELSE IF usaddress_label = "USPSBoxID"
                                THEN Put(normalized, "po_box", clean_string(StrVal(value)))
                                ELSE normalized
                      ELSE Put(normalized, our_field, clean_string(StrVal(value)))
         IN MapFields(parsed, Tail(entries), next)

\* _normalize_special_cases(normalized, parsed): normalized as updated
_normalize_special_cases(normalized, parsed) ==
    LET part(label) ==
            IF label \in DOMAIN parsed
            THEN <<clean_string(StrVal(parsed[label]))>> ELSE <<>>
        street_parts ==
            part("StreetNamePreDirectional") \o part("StreetName")
            \o part("StreetNamePostDirectional")
        n1 == IF street_parts # <<>>
              THEN Put(normalized, "street_name", Join(" ", street_parts))
              ELSE normalized
        n2 == IF "ZipCode" \in DOMAIN parsed /\ "ZipPlus4" \in DOMAIN parsed
              THEN Put(n1, "zip_code", parsed["ZipCode"] \o "-" \o parsed["ZipPlus4"])
              ELSE IF "ZipCode" \in DOMAIN parsed
                   THEN Put(n1, "zip_code", parsed["ZipCode"])
                   ELSE n1
        n3 == IF /\ "OccupancyType" \in DOMAIN parsed
                 /\ "OccupancyIdentifier" \in DOMAIN parsed
              THEN Put(n2, "unit",
                       clean_string(StrVal(parsed["OccupancyType"])) \o " "
                       \o parsed["OccupancyIdentifier"])
              ELSE IF "OccupancyIdentifier" \in DOMAIN parsed
                   THEN Put(n2, "unit", parsed["OccupancyIdentifier"])
                   ELSE n2
    IN n3

\* normalize_components(parsed)
normalize_components(parsed) ==
    IF DOMAIN parsed = {} THEN EmptyDict
    ELSE _normalize_special_cases(MapFields(parsed, field_mapping, EmptyDict), parsed)

-----------------------------------------------------------------------------
(* formatter.py *)

STREET_TYPE_ABBREVIATIONS ==
    {
      <<"ALLEY", "ALY">>, <<"ANEX", "ANX">>, <<"ANNEX", "ANX">>, <<"ARCADE", "ARC">>,
      <<"AVENUE", "AVE">>, <<"BAYOU", "BYU">>, <<"BEACH", "BCH">>, <<"BEND", "BND">>,
      <<"BLUFF", "BLF">>, <<"BLUFFS", "BLFS">>, <<"BOTTOM", "BTM">>, <<"BOULEVARD", "BLVD">>,
      <<"BRANCH", "BR">>, <<"BRIDGE", "BRG">>, <<"BROOK", "BRK">>, <<"BROOKS", "BRKS">>,
      <<"BURG", "BG">>, <<"BURGS", "BGS">>, <<"BYPASS", "BYP">>, <<"BYWAY", "BYW">>,
      <<"CAMP", "CP">>, <<"CANYON", "CYN">>, <<"CAPE", "CPE">>, <<"CAUSEWAY", "CSWY">>,
      <<"CENTER", "CTR">>, <<"CENTERS", "CTRS">>, <<"CIRCLE", "CIR">>, <<"CIRCLES", "CIRS">>,
      <<"CLIFF", "CLF">>, <<"CLIFFS", "CLFS">>, <<"CLOSE", "CL">>, <<"CLUB", "CLB">>,
      <<"COMMON", "CMN">>, <<"COMMONS", "CMNS">>, <<"CORNER", "COR">>, <<"CORNERS", "CORS">>,
      <<"COURSE", "CRSE">>, <<"COURT", "CT">>, <<"COURTS", "CTS">>, <<"COVE", "CV">>,
      <<"COVES", "CVS">>, <<"CREEK", "CRK">>, <<"CRESCENT", "CRES">>, <<"CREST", "CRST">>,
      <<"CROSSING", "XING">>, <<"CROSSROAD", "XRD">>, <<"CROSSROADS", "XRDS">>, <<"CURVE", "CURV">>,
      <<"DALE", "DL">>, <<"DAM", "DM">>, <<"DIVIDE", "DV">>, <<"DRIVE", "DR">>,
      <<"DRIVES", "DRS">>, <<"ESTATE", "EST">>, <<"ESTATES", "ESTS">>, <<"EXPRESSWAY", "EXPY">>,
      <<"EXTENSION", "EXT">>, <<"EXTENSIONS", "EXTS">>, <<"FALL", "FALL">>, <<"FALLS", "FLS">>,
      <<"FERRY", "FRY">>, <<"FIELD", "FLD">>, <<"FIELDS", "FLDS">>, <<"FLAT", "FLT">>,
      <<"FLATS", "FLTS">>, <<"FORD", "FRD">>, <<"FORDS", "FRDS">>, <<"FOREST", "FRST">>,
      <<"FORGE", "FRG">>, <<"FORGES", "FRGS">>, <<"FORK", "FRK">>, <<"FORKS", "FRKS">>,
      <<"FORT", "FT">>, <<"FREEWAY", "FWY">>, <<"GARDEN", "GDN">>, <<"GARDENS", "GDNS">>,
      <<"GATEWAY", "GTWY">>, <<"GLEN", "GLN">>, <<"GLENS", "GLNS">>, <<"GREEN", "GRN">>,
      <<"GREENS", "GRNS">>, <<"GROVE", "GRV">>, <<"GROVES", "GRVS">>, <<"HARBOR", "HBR">>,
      <<"HARBORS", "HBRS">>, <<"HAVEN", "HVN">>, <<"HEIGHTS", "HTS">>, <<"HIGHWAY", "HWY">>,
      <<"HILL", "HL">>, <<"HILLS", "HLS">>, <<"HOLLOW", "HOLW">>, <<"INLET", "INLT">>,
      <<"ISLAND", "IS">>, <<"ISLANDS", "ISS">>, <<"ISLE", "ISLE">>, <<"JUNCTION", "JCT">>,
      <<"JUNCTIONS", "JCTS">>, <<"KEY", "KY">>, <<"KEYS", "KYS">>, <<"KNOLL", "KNL">>,
      <<"KNOLLS", "KNLS">>, <<"LAKE", "LK">>, <<"LAKES", "LKS">>, <<"LAND", "LAND">>,
      <<"LANDING", "LNDG">>, <<"LANE", "LN">>, <<"LANES", "LNS">>, <<"LIGHT", "LGT">>,
      <<"LIGHTS", "LGTS">>, <<"LOAF", "LF">>, <<"LOCK", "LCK">>, <<"LOCKS", "LCKS">>,
      <<"LODGE", "LDG">>, <<"LOOP", "LOOP">>, <<"MALL", "MALL">>, <<"MANOR", "MNR">>,
      <<"MANORS", "MNRS">>, <<"MEADOW", "MDW">>, <<"MEADOWS", "MDWS">>, <<"MILE", "MI">>,
      <<"MILES", "MIS">>, <<"MILL", "ML">>, <<"MILLS", "MLS">>, <<"MISSION", "MSN">>,
      <<"MOUNT", "MT">>, <<"MOUNTAIN", "MTN">>, <<"MOUNTAINS", "MTNS">>, <<"NECK", "NCK">>,
      <<"ORCHARD", "ORCH">>, <<"OVAL", "OVAL">>, <<"OVERPASS", "OPAS">>, <<"PARK", "PARK">>,
      <<"PARKS", "PARK">>, <<"PARKWAY", "PKWY">>, <<"PARKWAYS", "PKWY">>, <<"PASS", "PASS">>,
      <<"PASSAGE", "PSGE">>, <<"PATH", "PATH">>, <<"PIKE", "PIKE">>, <<"PINE", "PNE">>,
      <<"PINES", "PNES">>, <<"PLACE", "PL">>, <<"PLAIN", "PLN">>, <<"PLAINS", "PLNS">>,
      <<"PLAZA", "PLZ">>, <<"POINT", "PT">>, <<"POINTS", "PTS">>, <<"PORT", "PRT">>,
      <<"PORTS", "PRTS">>, <<"PRAIRIE", "PR">>, <<"RADIAL", "RADL">>, <<"RAMP", "RAMP">>,
      <<"RANCH", "RNCH">>, <<"RAPID", "RPD">>, <<"RAPIDS", "RPDS">>, <<"REST", "RST">>,
      <<"RIDGE", "RDG">>, <<"RIDGES", "RDGS">>, <<"RIVER", "RIV">>, <<"ROAD", "RD">>,
      <<"ROADS", "RDS">>, <<"ROUTE", "RTE">>, <<"ROW", "ROW">>, <<"RUE", "RUE">>,
      <<"RUN", "RUN">>, <<"SHOAL", "SHL">>, <<"SHOALS", "SHLS">>, <<"SHORE", "SHR">>,
      <<"SHORES", "SHRS">>, <<"SKYWAY", "SKWY">>, <<"SPRING", "SPG">>, <<"SPRINGS", "SPGS">>,
      <<"SPUR", "SPUR">>, <<"SQUARE", "SQ">>, <<"SQUARES", "SQS">>, <<"STATION", "STA">>,
      <<"STRAVENUE", "STRA">>, <<"STREAM", "STRM">>, <<"STREET", "ST">>, <<"STREETS", "STS">>,
      <<"SUMMIT", "SMT">>, <<"TERRACE", "TER">>, <<"THROUGHWAY", "TRWY">>, <<"TRAIL", "TRL">>,
      <<"TRAILER", "TRLR">>, <<"TUNNEL", "TUNL">>, <<"TURNPIKE", "TPKE">>, <<"UNDERPASS", "UPAS">>,
      <<"UNION", "UN">>, <<"UNIONS", "UNS">>, <<"VALLEY", "VLY">>, <<"VALLEYS", "VLYS">>,
      <<"VIADUCT", "VIA">>, <<"VIEW", "VW">>, <<"VIEWS", "VWS">>, <<"VILLAGE", "VLG">>,
      <<"VILLAGES", "VLGS">>, <<"VILLE", "VL">>, <<"VISTA", "VIS">>, <<"WALK", "WALK">>,
      <<"WALKS", "WALK">>, <<"WALL", "WALL">>, <<"WAY", "WAY">>, <<"WAYS", "WAYS">>,
      <<"WELL", "WL">>, <<"WELLS", "WLS">> }

DIRECTIONAL_ABBREVIATIONS ==
    {
      <<"NORTH", "N">>, <<"NORTHEAST", "NE">>, <<"EAST", "E">>, <<"SOUTHEAST", "SE">>,
      <<"SOUTH", "S">>, <<"SOUTHWEST", "SW">>, <<"WEST", "W">>, <<"NORTHWEST", "NW">> }

UNIT_ABBREVIATIONS ==
    {
      <<"APARTMENT", "APT">>, <<"BASEMENT", "BSMT">>, <<"BUILDING", "BLDG">>, <<"DEPARTMENT", "DEPT">>,
      <<"FLOOR", "FL">>, <<"FRONT", "FRNT">>, <<"HANGAR", "HNGR">>, <<"LOBBY", "LBBY">>,
      <<"LOT", "LOT">>, <<"LOWER", "LOWR">>, <<"OFFICE", "OFC">>, <<"PENTHOUSE", "PH">>,
      <<"PIER", "PIER">>, <<"REAR", "REAR">>, <<"ROOM", "RM">>, <<"SIDE", "SIDE">>,
      <<"SPACE", "SPC">>, <<"STOP", "STOP">>, <<"SUITE", "STE">>, <<"TRAILER", "TRLR">>,
      <<"UNIT", "UNIT">>, <<"UPPER", "UPPR">> }

\* standardize_abbreviations with the strip of line 345 moved to the final
\* return: the tables are searched for the text as given, upper-cased.
standardize_abbreviations_StripLast(text) ==
    IF text = "" THEN ""
    ELSE LET text_upper == StrUpper(text)
         IN IF text_upper \in Keys(STREET_TYPE_ABBREVIATIONS)
            THEN Lookup(STREET_TYPE_ABBREVIATIONS, text_upper)
            ELSE IF text_upper \in Keys(DIRECTIONAL_ABBREVIATIONS)
                 THEN Lookup(DIRECTIONAL_ABBREVIATIONS, text_upper)
                 ELSE IF text_upper \in Keys(UNIT_ABBREVIATIONS)
                      THEN Lookup(UNIT_ABBREVIATIONS, text_upper)
                      ELSE StrStrip(text_upper)

\* standardize_abbreviations(text)
standardize_abbreviations(text) ==
    IF text = "" THEN ""
    ELSE LET text_upper == StrStrip(StrUpper(text))
         IN IF text_upper \in Keys(STREET_TYPE_ABBREVIATIONS)
            THEN Lookup(STREET_TYPE_ABBREVIATIONS, text_upper)
            ELSE IF text_upper \in Keys(DIRECTIONAL_ABBREVIATIONS)
                 THEN Lookup(DIRECTIONAL_ABBREVIATIONS, text_upper)
                 ELSE IF text_upper \in Keys(UNIT_ABBREVIATIONS)
                      THEN Lookup(UNIT_ABBREVIATIONS, text_upper)
                      ELSE text_upper

\* standardize_unit_designator(unit_text)
standardize_unit_designator(unit_text) ==
    IF unit_text = "" THEN ""
    ELSE LET unit_upper == StrStrip(StrUpper(unit_text))
             words == SplitWs(unit_upper)
         IN IF Len(words) >= 2
            THEN standardize_abbreviations(words[1]) \o " " \o Join(" ", Tail(words))
            ELSE unit_upper

\* format_usps_standard(address_dict)
format_usps_standard(address_dict) ==
    IF DOMAIN address_dict = {} THEN EmptyDict
    ELSE LET has(k) == Get(address_dict, k, "") # ""
             abbr(k) == IF has(k) THEN <<standardize_abbreviations(address_dict[k])>>
                        ELSE <<>>
             street_parts ==
                 abbr("street_directional_prefix")
                 \o (IF has("street_name") THEN <<address_dict["street_name"]>> ELSE <<>>)
                 \o abbr("street_directional_suffix")
                 \o abbr("street_type")
             unit ==
                 IF has("unit") THEN <<standardize_unit_designator(address_dict["unit"])>>
                 ELSE IF has("unit_type") /\ has("unit_number")
                      THEN <<standardize_abbreviations(address_dict["unit_type"])
                             \o " " \o address_dict["unit_number"]>>
                      ELSE <<>>
             keys ==
                 {k \in {"street_number", "po_box", "city", "state", "zip_code"} : has(k)}
                 \cup (IF street_parts # <<>> THEN {"street_name"} ELSE {})
                 \cup (IF unit # <<>> THEN {"unit"} ELSE {})
             formatted(k) ==
                 CASE k = "street_number" -> address_dict[k]
                   [] k = "street_name" -> Join(" ", street_parts)
                   [] k = "unit" -> unit[1]
                   [] k = "po_box" -> "PO BOX " \o address_dict[k]
                   [] k \in {"city", "state"} -> StrUpper(address_dict[k])
                   [] OTHER -> address_dict[k]
         IN [k \in keys |-> formatted(k)]

\* The street and unit sections format_output_line and
\* format_multi_line_address both build.
StreetSection(address_dict) ==
    IF Get(address_dict, "street_number", "") # "" /\ Get(address_dict, "street_name", "") # ""
    THEN <<address_dict["street_number"] \o " " \o address_dict["street_name"]>>
    ELSE IF Get(address_dict, "street_name", "") # ""
         THEN <<address_dict["street_name"]>>
         ELSE <<>>

Section(address_dict, k) ==
    IF Get(address_dict, k, "") # "" THEN <<address_dict[k]>> ELSE <<>>

\* city_state_zip of format_output_line and format_multi_line_address
CityStateZip(address_dict) ==
    Section(address_dict, "city") \o Section(address_dict, "state")
    \o Section(address_dict, "zip_code")

\* format_output_line(address_dict)
format_output_line(address_dict) ==
    IF DOMAIN address_dict = {} THEN ""
    ELSE LET city_state_zip == CityStateZip(address_dict)
             parts ==
                 StreetSection(address_dict)
                 \o Section(address_dict, "unit")
                 \o Section(address_dict, "po_box")
                 \o (IF city_state_zip # <<>> THEN <<Join(", ", city_state_zip)>>
                     ELSE <<>>)
         IN Join(", ", parts)

\* format_multi_line_address(address_dict)
format_multi_line_address(address_dict) ==
    IF DOMAIN address_dict = {} THEN <<>>
    ELSE LET line1_parts == StreetSection(address_dict) \o Section(address_dict, "unit")
             line1 ==
                 IF Get(address_dict, "po_box", "") # "" THEN <<address_dict["po_box"]>>
                 ELSE IF line1_parts # <<>> THEN <<Join(" ", line1_parts)>> ELSE <<>>
             city_state_zip == CityStateZip(address_dict)
         IN line1 \o (IF city_state_zip # <<>> THEN <<Join(" ", city_state_zip)>>
                      ELSE <<>>)

\* create_formatted_address_result with line 510 reading the confidence of
\* the validator's outcome instead of the parser's.
create_formatted_address_result_ValidatorConfidence(original_address, parsed, validated) ==
    Only(UNION {
        { [original |-> original_address,
           parsed |-> normalized,
           formatted |-> formatted_components,
           single_line |-> format_output_line(formatted_components),
           multi_line |-> format_multi_line_address(formatted_components),
           confidence |-> Get(validated, "confidence", 0),
           valid |-> Get(validated, "valid", FALSE),
           issues |-> Get(validated, "issues", <<>>),
           address_type |-> Get(parsed, "address_type", "Unknown")] :
          formatted_components \in {format_usps_standard(normalized)} } :
        normalized \in {normalize_components(Get(parsed, "parsed", EmptyDict))} })

\* create_formatted_address_result(original_address, parsed, validated); the
\* locals normalized and formatted_components are bound to their values once.
create_formatted_address_result(original_address, parsed, validated) ==
    Only(UNION {
        { [original |-> original_address,
           parsed |-> normalized,
           formatted |-> formatted_components,
           single_line |-> format_output_line(formatted_components),
           multi_line |-> format_multi_line_address(formatted_components),
           confidence |-> Get(parsed, "confidence", 0),
           valid |-> Get(validated, "valid", FALSE),
           issues |-> Get(validated, "issues", <<>>),
           address_type |-> Get(parsed, "address_type", "Unknown")] :
          formatted_components \in {format_usps_standard(normalized)} } :
        normalized \in {normalize_components(Get(parsed, "parsed", EmptyDict))} })

-----------------------------------------------------------------------------
(* parser.py: the tagger adapter *)

\* The match of \b(AND|&)\b at position i.
MatchAndAmp(s, i) ==
    Only({ IF a > 0 THEN a ELSE MatchBounded(s, i, << <<"lit", "&">> >>) :
             a \in {MatchBounded(s, i, << <<"lit", "AND">> >>)} })

\* addr.split(',')[0]
BeforeComma(s) ==
    LET commas == {i \in 1..Len(s) : At(s, i) = ","}
    IN IF commas = {} THEN s ELSE SubSeq(s, 1, MinOf(commas) - 1)

\* A plausible slip: the first two strategies in the other order.
ApplyStrategy_Swapped(k, addr) ==
    CASE k = 2 -> ReSub(addr, 1, MatchAndAmp, "")
      [] k = 1 -> BeforeComma(addr)
      [] OTHER -> SubCommaSpacing(addr)

\* strategies[k - 1](addr), the k-th rewrite of _handle_repeated_label_error
ApplyStrategy(k, addr) ==
    CASE k = 1 -> ReSub(addr, 1, MatchAndAmp, "")
      [] k = 2 -> BeforeComma(addr)
      [] OTHER -> SubCommaSpacing(addr)

\* len(strategies)
NumStrategies == 3

\* confidence * 0.8, in tenths (every score is a multiple of 2.5 points, so
\* the product is a whole number of tenths)
AlternativeConfidence(confidence) == (confidence * 8) \div 10

\* A plausible slip: a failed parse keeps the scorer's base score.
ParseFailure_BaseScore(original, msg) ==
    [original |-> original, parsed |-> EmptyDict, confidence |-> 500,
     error |-> StrVal(msg)]

\* The record parse_address and _handle_repeated_label_error return when the
\* address could not be parsed.
ParseFailure(original, msg) ==
    [original |-> original, parsed |-> EmptyDict, confidence |-> 0,
     error |-> StrVal(msg)]

\* The record parse_address returns when the first tagging succeeds.
ParseSuccess(original, parsed_components, address_type) ==
    [original |-> original, parsed |-> parsed_components,
     address_type |-> address_type,
     confidence |-> _calculate_parsing_confidence(parsed_components, address_type),
     error |-> NoneVal]

\* The record _handle_repeated_label_error returns when strategy k succeeds.
AlternativeSuccess(original, parsed_components, address_type, k) ==
    [original |-> original, parsed |-> parsed_components,
     address_type |-> address_type,
     confidence |->
         AlternativeConfidence(
             _calculate_parsing_confidence(parsed_components, address_type)),
     error |-> NoneVal,
     parsing_strategy |-> "alternative_" \o IntToStr(k)]

-----------------------------------------------------------------------------
(* The tagger, an external collaborator: usaddress.tag(text) returns a       *)
(* mapping of labels to pieces of the text and an address type, or raises    *)
(* RepeatedLabelError, or raises something else.  Which of these happens is  *)
(* the environment's choice at every call.                                   *)

CommasToSpaces(s) ==
    LET swap(c) == IF c = "," THEN " " ELSE c IN MapChars(s, swap)

\* The words of a text, punctuation aside.
WordSet(s) ==
    UNION { {w[i] : i \in 1..Len(w)} :
              w \in { SplitWs(t) : t \in {CommasToSpaces(s)} } }

\* The labelled-token mappings the tagger is let to return.
TagUniverse ==
    { [AddressNumber |-> "123"],
      [AddressNumber |-> "123", StreetName |-> "MAIN", StreetNamePostType |-> "ST"],
      [AddressNumber |-> "123", StreetName |-> "MAIN", StreetNamePostType |-> "ST",
       PlaceName |-> "AUSTIN", StateName |-> "TX"],
      [AddressNumber |-> "123", StreetName |-> "MAIN", StreetNamePostType |-> "ST",
       PlaceName |-> "AUSTIN", StateName |-> "TX", ZipCode |-> "78701"],
      [AddressNumber |-> "123", StreetName |-> "MAIN", StreetNamePostType |-> "STREET",
       PlaceName |-> "AUSTIN", StateName |-> "TX", ZipCode |-> "78701"],
      [AddressNumber |-> "123", StreetNamePreDirectional |-> "N", StreetName |-> "MAIN",
       StreetNamePostType |-> "ST", OccupancyType |-> "APT",
       OccupancyIdentifier |-> "4B", PlaceName |-> "AUSTIN", StateName |-> "TX",
       ZipCode |-> "78701", ZipPlus4 |-> "1234"],
      [USPSBoxType |-> "PO BOX", USPSBoxID |-> "123", PlaceName |-> "AUSTIN",
       StateName |-> "TX", ZipCode |-> "78701"],
      [POBox |-> "123", PlaceName |-> "AUSTIN"],
      [StreetName |-> "MAIN", PlaceName |-> "AUSTIN", StateName |-> "TEXAS",
       ZipCode |-> "7870"] }

AddressTypes == {"Street Address", "PO Box", "Ambiguous"}

\* A tagger labels pieces of the text it is given: every word of a value is
\* a word of the text, and a text without words has no labelled tokens.
TaggerOutputs(text) ==
    UNION { IF words = {} THEN {EmptyDict}
            ELSE {tokens \in TagUniverse :
                     \A k \in DOMAIN tokens : WordSet(tokens[k]) \subseteq words} :
            words \in {WordSet(text)} }

\* What one call usaddress.tag(text) may do.
TaggerOutcomes(text) ==
    {[kind |-> "repeated", text |-> text, tokens |-> EmptyDict, type |-> ""],
     [kind |-> "error", text |-> text, tokens |-> EmptyDict, type |-> ""]}
    \cup UNION {
           {[kind |-> "ok", text |-> text, tokens |-> tokens, type |-> type] :
               type \in (IF tokens = EmptyDict THEN {"Ambiguous"} ELSE AddressTypes)} :
           tokens \in TaggerOutputs(text)}

\* str(e) of the two kinds of exception the tagger raises.
RepeatedLabelMessage == "repeated label"

TaggerErrorMessage == "tagger failure"

-----------------------------------------------------------------------------
(* The calls of the pipeline as functions of their argument: every result a  *)
(* call may return, over the choices of the tagger.                          *)

RECURSIVE LadderResults(_, _, _)
\* What _handle_repeated_label_error may return once strategies 1..k-1 have
\* failed.
LadderResults(raw_address, cleaned_address, k) ==
    UNION { IF o.kind = "ok"
            THEN {AlternativeSuccess(raw_address, o.tokens, o.type, k)}
            ELSE IF k < NumStrategies
                 THEN LadderResults(raw_address, cleaned_address, k + 1)
                 ELSE {ParseFailure(raw_address,
                           "Could not parse address: " \o RepeatedLabelMessage)} :
            o \in TaggerOutcomes(ApplyStrategy(k, cleaned_address)) }

\* What parse_address(raw_address) may return, for an argument that has a
\* truth value.
ParseResults(raw_address) ==
    IF ~Truthy(raw_address) \/ ~IsInstanceStr(raw_address)
    THEN {ParseFailure(IF Truthy(raw_address) THEN raw_address ELSE StrVal(""),
                       "Invalid input: empty or non-string address")}
    ELSE LET cleaned_address == clean_string(raw_address)
         IN UNION { CASE o.kind = "ok" ->
                             {ParseSuccess(raw_address, o.tokens, o.type)}
                      [] o.kind = "repeated" ->
                             LadderResults(raw_address, cleaned_address, 1)
                      [] OTHER ->
                             {ParseFailure(raw_address,
                                  "Parsing error: " \o TaggerErrorMessage)} :
                    o \in TaggerOutcomes(cleaned_address) }

\* What cli.py's process_single_address(address, logger) may return, for an
\* address that has a truth value.  Every local is bound to its value once.
CliProcessSingleAddress(address) ==
    UNION { UNION { { create_formatted_address_result(address, parsed_result,
                                                      validation_result) :
                      validation_result \in {validate_address(normalized)} } :
                    normalized \in
                        {normalize_components(Get(parsed_result, "parsed", EmptyDict))} } :
            parsed_result \in ParseResults(StrVal(handle_edge_cases(address))) }

-----------------------------------------------------------------------------
(* api/service.py *)

\* AddressService.__init__: the statistics of a new service.
NewStats ==
    [total_processed |-> 0, total_valid |-> 0, total_invalid |-> 0,
     total_errors |-> 0, confidence_scores |-> <<>>]

\* The length confidence_scores is cut back to.
WindowLimit == 1000

\* confidence_scores[-1000:], which keeps the oldest scores instead of the
\* latest.
TrimWindow_KeepOldest(scores) ==
    IF Len(scores) > WindowLimit THEN SubSeq(scores, 1, WindowLimit) ELSE scores

\* if len(confidence_scores) > 1000: confidence_scores = confidence_scores[-1000:]
TrimWindow(scores) ==
    IF Len(scores) > WindowLimit
    THEN SubSeq(scores, Len(scores) - WindowLimit + 1, Len(scores))
    ELSE scores

\* _update_stats(is_valid, confidence, has_error) on statistics st, run
\* without interruption.
_update_stats(st, is_valid, confidence, has_error) ==
    [total_processed |-> st.total_processed + 1,
     total_valid |-> st.total_valid + (IF is_valid THEN 1 ELSE 0),
     total_invalid |-> st.total_invalid + (IF is_valid THEN 0 ELSE 1),
     total_errors |-> st.total_errors + (IF has_error THEN 1 ELSE 0),
     confidence_scores |->
         IF confidence > 0
         THEN TrimWindow(Append(st.confidence_scores, confidence))
         ELSE st.confidence_scores]

\* The flags return_parsed, return_confidence, return_original of a call.
Options(return_parsed, return_confidence, return_original) ==
    [return_parsed |-> return_parsed, return_confidence |-> return_confidence,
     return_original |-> return_original]

\* A call of AddressService.process_single_address ends with a response and
\* with the arguments it gave to _update_stats.
ServiceOutcome(response, is_valid, confidence, has_error) ==
    [response |-> response, is_valid |-> is_valid, confidence |-> confidence,
     has_error |-> has_error]

\* Lines 47-53: the response to an address that is empty or not a string.
InvalidInputOutcome ==
    ServiceOutcome(
        [formatted |-> "",
         valid |-> [state |-> FALSE, zip |-> FALSE, is_complete |-> FALSE],
         errors |-> <<"Invalid input: empty or non-string address">>],
        FALSE, 0, TRUE)

\* Lines 66-70 with an empty issues list in the record that stands for the
\* validation of no components.
ServiceValidate_NoIssue(normalized) ==
    IF normalized # EmptyDict THEN validate_address(normalized)
    ELSE [valid |-> FALSE, issues |-> <<>>]

\* Lines 66-70: validate_address(normalized) if normalized else the record
\* that stands for it.
ServiceValidate(normalized) ==
    IF normalized # EmptyDict THEN validate_address(normalized)
    ELSE [valid |-> FALSE, issues |-> <<"No parsed components">>]

\* Lines 73-106: the response dictionary.
ServiceResponse(address, parsed_result, normalized, validated_result, options) ==
    LET keys ==
            {"formatted", "valid", "errors"}
            \cup (IF options.return_parsed
                     /\ Get(parsed_result, "parsed", EmptyDict) # EmptyDict
                  THEN {"parsed"} ELSE {})
            \cup (IF options.return_confidence THEN {"confidence"} ELSE {})
            \cup (IF options.return_original THEN {"original"} ELSE {})
        field(k) ==
            CASE k = "formatted" ->
                     IF normalized # EmptyDict
                     THEN create_formatted_address_result(
                              address, parsed_result, validated_result).single_line
                     ELSE ""
              [] k = "valid" ->
                     [state |-> Get(validated_result, "state_valid", FALSE),
                      zip |-> Get(validated_result, "zip_valid", FALSE),
                      is_complete |-> Get(validated_result, "is_complete", FALSE)]
              [] k = "errors" -> Get(validated_result, "issues", <<>>)
              [] k = "parsed" -> normalized
              [] k = "confidence" -> Get(parsed_result, "confidence", 0)
              [] OTHER -> address
    IN [k \in keys |-> field(k)]

\* Lines 61-64: normalize_components(parsed_dict) if parsed_dict else {}
ServiceNormalize(parsed_result) ==
    IF Get(parsed_result, "parsed", EmptyDict) # EmptyDict
    THEN normalize_components(Get(parsed_result, "parsed", EmptyDict))
    ELSE EmptyDict

\* Lines 56-112: the response built from what parse_address returned, and
\* the arguments of the call of _update_stats.  Every local is bound to its
\* value once.
ServiceRespond(address, parsed_result, options) ==
    Only(UNION { UNION { { ServiceOutcome(
                               response,
                               Get(validated_result, "valid", FALSE),
                               Get(parsed_result, "confidence", 0),
                               Len(response.errors) > 0) :
                           response \in
                               {ServiceResponse(address, parsed_result, normalized,
                                                validated_result, options)} } :
                         validated_result \in {ServiceValidate(normalized)} } :
                 normalized \in {ServiceNormalize(parsed_result)} })

\* What AddressService.process_single_address(address, ...) may return, for
\* an address that has a truth value.
ServiceProcessSingleAddress(address, options) ==
    IF ~Truthy(address) \/ ~IsInstanceStr(address) THEN {InvalidInputOutcome}
    ELSE { ServiceRespond(address, parsed_result, options) :
             parsed_result \in ParseResults(address) }

-----------------------------------------------------------------------------
(* The state: one call in progress at a time, made by a caller of the CLI's  *)
(* process_single_address or of a function of the library.  The variables    *)
(* other than pc are the locals of the call; they are read while the call    *)
(* stands at "done" and are gone once it has returned.                       *)

VARIABLES
    pc,                 \* where the call in progress stands
    entry,              \* the entry point called: "cli", "parse", "lib" or "none"
    address,            \* the argument of the entry point
    raw_address,        \* the argument parse_address was given
    cleaned_address,    \* parse_address's cleaned_address
    retry_index,        \* i of the loop of _handle_repeated_label_error
    tag_log,            \* the calls made to the tagger, in order
    parsed_result,      \* what parse_address returned
    normalized,         \* what normalize_components returned
    validation_result,  \* what validate_address returned
    result,             \* what the entry point returned
    raised,             \* the stage whose exception left the entry point, or "none"
    fn                  \* the direct call of a library function: op, args, out

vars == <<pc, entry, address, raw_address, cleaned_address, retry_index, tag_log,
          parsed_result, normalized, validation_result, result, raised, fn>>

NoCall == [op |-> "none"]

VARIABLES
    stats,              \* AddressService._stats of the service in use
    calls,              \* the calls of _update_stats in progress on threads
    batch,              \* the batch call in progress: its rows, position and results
    recorded            \* history: every score given to confidence_scores.append

service_vars == <<stats, calls, batch, recorded>>

NoBatch == [mode |-> "none"]

\* The addresses handed to the entry points.
Addresses ==
    { StrVal("123   Main   Street,  Austin , TX 78701"),
      StrVal("PO Box 123, Austin, TX 78701"),
      StrVal("123 N Main St Apt 4b, Austin , TX 78701 1234"),
      StrVal("123 Main St and Main & Texas , Austin,Texas 7870"),
      StrVal(""),
      StrVal(" \t "),
      NoneVal,
      IntVal(123),
      IntVal(0),
      NAVal }

\* What is absent from a mapping, while its keys are being chosen.
Absent == "(absent)"

\* The mapping that holds the keys of a to which a value was given.
Present(a) == [k \in {j \in DOMAIN a : a[j] # Absent} |-> a[k]]

\* The component mappings handed to the validator.
ComponentDicts ==
    { Present(a) :
        a \in [street_number : {Absent, "", "123"},
               street_name : {Absent, "", "MAIN"},
               city : {Absent, "", "AUSTIN"},
               state : {Absent, "", "TX", "Texas", "ZZ"},
               zip_code : {Absent, "", "78701", "78701-1234", "7870"},
               po_box : {Absent, "", "123"}] }

\* The formatted component mappings handed to format_output_line.
FormattedDicts ==
    { Present(a) :
        a \in [street_number : {Absent, "", "123"},
               street_name : {Absent, "", "MAIN ST"},
               unit : {Absent, "", "APT 4B"},
               po_box : {Absent, "", "PO BOX 123"},
               city : {Absent, "", "AUSTIN"},
               state : {Absent, "", "TX"},
               zip_code : {Absent, "", "78701"}] }

\* The labels of the token mappings handed to the scorer.
ScoredLabels ==
    {"AddressNumber", "StreetName", "PlaceName", "StateName", "ZipCode",
     "StreetNamePostModifier", "POBox", "USPSBoxID"}

\* The token mappings handed to the scorer, which reads their keys alone.
TokenDicts == { [k \in labels |-> "X"] : labels \in SUBSET ScoredLabels }

\* The parser results handed to calculate_confidence_score: every confidence
\* from 0.0 to 100.0 in tenths, a result without a confidence and the empty one.
ParsedForScore ==
    { [confidence |-> c] : c \in 0..1000 }
    \cup { [street_name |-> 0], EmptyDict }

\* The validation flags handed to calculate_confidence_score.
ValidationsForScore ==
    [zip_valid : BOOLEAN, state_valid : BOOLEAN, is_complete : BOOLEAN]
    \cup { EmptyDict }

\* The ZIP codes handed to validate_zip_code.
ZipCodes ==
    { "", " ", "-", "78701", "78701-1234", " 78701 ", "\t78701-1234 ", "TX 78701",
      "7 8 7 0 1", "78701 1234", "78701 - 1234", "7870", "787012", "787012345",
      "78701-123", "78701-12345", "7870-11234", "78-701", "78701-", "-78701",
      "78701--1234", "ABCDE", "7870A", "7870A1", "78701-12A4", "78701-1234-" }

\* str.lower(), for the inputs given in lower case.
StrLower(s) ==
    LET lower(c) ==
            IF c \in Chars(UpperChars)
            THEN At(LowerChars, CHOOSE i \in 1..Len(UpperChars) : At(UpperChars, i) = c)
            ELSE c
    IN MapChars(s, lower)

\* The states handed to validate_state: every abbreviation and every name of
\* the validator's tables, in upper case, in lower case, padded and both, and
\* texts that are in neither table.
StateTexts ==
    LET known == VALID_STATES \cup Keys(STATE_NAME_TO_ABBREV)
    IN known
       \cup { StrLower(s) : s \in known }
       \cup { " " \o s \o "\t" : s \in known }
       \cup { " " \o StrLower(s) \o "\t" : s \in known }
       \cup { "", " ", "ZZ", "T X", "TEX", "TXX", "Tx", "tX", " tx ", "Texas",
              "New York", "NEW  YORK", "NEWYORK", "NEW YORK CITY", "U.S.", "XX",
              "D.C.", "WASHINGTON DC", "PUERTO", "VIRGIN ISLANDS US" }

\* The mappings that give each label of a subset of DOMAIN choices one of the
\* label's values in choices.
PartialMappings(choices) ==
    UNION { { m \in [D -> UNION { choices[k] : k \in D }] :
                \A k \in D : m[k] \in choices[k] } :
            D \in SUBSET DOMAIN choices }

\* The values of the box labels handed to normalize_components: absent,
\* empty, clean, and in need of cleaning.
BoxChoices ==
    [POBox |-> {"", "99"},
     USPSBoxID |-> {"", " 12a ", "123"},
     USPSBoxType |-> {"", "po box", "PO BOX"},
     PlaceName |-> {"Austin"}]

\* The values of the labels _normalize_special_cases reads.
SpecialChoices ==
    [StreetNamePreDirectional |-> {"n"},
     StreetName |-> {"", "Main"},
     ZipCode |-> {"78701", " 78701"},
     ZipPlus4 |-> {"1234"},
     OccupancyType |-> {"apt"},
     OccupancyIdentifier |-> {"4b", "4B"}]

\* The token mappings handed to normalize_components.
TokenMappings ==
    PartialMappings(BoxChoices) \cup PartialMappings(SpecialChoices) \cup TagUniverse

\* The original addresses handed to create_formatted_address_result.
BuilderOriginals == { StrVal("123   Main   Street,  Austin , TX 78701"), StrVal("") }

\* The parser results handed to create_formatted_address_result: the results
\* of a first tagging for every token mapping and address type of the
\* tagger, a failure and the empty mapping.
BuilderParsed ==
    { ParseSuccess(StrVal("123 MAIN ST"), tokens, type) :
        tokens \in TagUniverse, type \in AddressTypes }
    \cup { ParseFailure(StrVal(""), "Invalid input: empty or non-string address"),
           EmptyDict }

\* The validation outcomes handed to create_formatted_address_result.
BuilderValidated ==
    { validate_address(normalize_components(tokens)) : tokens \in TagUniverse }
    \cup { validate_address(EmptyDict), EmptyDict,
           [valid |-> FALSE, issues |-> <<"No parsed components">>] }

Init ==
    /\ pc = "idle"
    /\ entry = "none"
    /\ address = NoneVal
    /\ raw_address = NoneVal
    /\ cleaned_address = ""
    /\ retry_index = 0
    /\ tag_log = <<>>
    /\ parsed_result = EmptyDict
    /\ normalized = EmptyDict
    /\ validation_result = EmptyDict
    /\ result = EmptyDict
    /\ raised = "none"
    /\ fn = NoCall
    /\ stats = NewStats
    /\ calls = <<>>
    /\ batch = NoBatch
    /\ recorded = <<>>

\* A call of entry point e begins at `at`, its locals unset.
Begin(e, a, at) ==
    /\ pc = "idle"
    /\ pc' = at
    /\ entry' = e
    /\ address' = a
    /\ UNCHANGED <<cleaned_address, retry_index, tag_log, parsed_result, normalized,
                   validation_result, result, raised, fn>>

\* A direct call op(args) of a function of the library returns out.
Call(op, args, out) ==
    /\ pc = "idle"
    /\ pc' = "done"
    /\ entry' = "lib"
    /\ fn' = [op |-> op, args |-> args, out |-> out]
    /\ UNCHANGED <<address, raw_address, cleaned_address, retry_index, tag_log,
                   parsed_result, normalized, validation_result, result, raised>>
    /\ UNCHANGED service_vars

\* An exception nothing catches leaves the entry point, which returns no
\* record: neither process_single_address nor parse_address's input guard
\* stands inside a try block.
Raise(stage) ==
    /\ pc' = "done"
    /\ raised' = stage
    /\ result' = EmptyDict

\* cli.py: process_single_address(address, logger) is called.
StartCLI ==
    /\ pc = "idle"
    /\ \E a \in Addresses :
          /\ Begin("cli", a, "preprocess")
          /\ UNCHANGED raw_address
    /\ UNCHANGED service_vars

\* A caller of the library calls parse_address(raw_address).
StartParse ==
    /\ pc = "idle"
    /\ \E a \in Addresses :
          /\ Begin("parse", a, "tag")
          /\ raw_address' = a
    /\ UNCHANGED service_vars

\* processed_address = handle_edge_cases(address); its first statement,
\* `if not address`, raises for an address without a truth value.
Preprocess ==
    /\ pc = "preprocess"
    /\ IF TruthRaises(address)
       THEN /\ Raise("preprocess")
            /\ UNCHANGED raw_address
       ELSE /\ raw_address' = StrVal(handle_edge_cases(address))
            /\ pc' = "tag"
            /\ UNCHANGED <<result, raised>>
    /\ UNCHANGED <<entry, address, cleaned_address, retry_index, tag_log,
                   parsed_result, normalized, validation_result, fn>>
    /\ UNCHANGED service_vars

\* Where the call goes on once parse_address has returned.
AfterParse ==
    CASE entry = "cli" -> "normalize"
      [] entry = "api" -> "respond"
      [] OTHER -> "done"

\* parse_address with the handler of line 50 calling the retry ladder too:
\* any exception of the first tagging is retried.
Parse_LadderOnAnyError ==
    /\ pc = "tag"
    /\ \/ /\ TruthRaises(raw_address)
          /\ Raise("parse")
          /\ UNCHANGED <<cleaned_address, tag_log, parsed_result>>
       \/ /\ ~TruthRaises(raw_address)
          /\ ~Truthy(raw_address) \/ ~IsInstanceStr(raw_address)
          /\ parsed_result' =
                 ParseFailure(IF Truthy(raw_address) THEN raw_address ELSE StrVal(""),
                              "Invalid input: empty or non-string address")
          /\ pc' = AfterParse
          /\ UNCHANGED <<cleaned_address, tag_log, result, raised>>
       \/ /\ Truthy(raw_address) /\ IsInstanceStr(raw_address)
          /\ \E cleaned \in {clean_string(raw_address)} :
             \E o \in TaggerOutcomes(cleaned) :
                /\ cleaned_address' = cleaned
                /\ tag_log' = <<o>>
                /\ CASE o.kind = "ok" ->
                          /\ parsed_result' = ParseSuccess(raw_address, o.tokens, o.type)
                          /\ pc' = AfterParse
                     [] o.kind = "repeated" ->
                          /\ parsed_result' = EmptyDict
                          /\ pc' = "retry"
                     [] OTHER ->
                          /\ parsed_result' = EmptyDict
                          /\ pc' = "retry"
          /\ UNCHANGED <<result, raised>>
    /\ UNCHANGED <<entry, address, raw_address, retry_index, normalized,
                   validation_result, fn>>
    /\ UNCHANGED service_vars

\* parse_address(raw_address) up to its return or to the retry ladder: the
\* input guard, the cleaning and the first call of the tagger.
Parse ==
    /\ pc = "tag"
    /\ \/ /\ TruthRaises(raw_address)
          /\ Raise("parse")
          /\ UNCHANGED <<cleaned_address, tag_log, parsed_result>>
       \/ /\ ~TruthRaises(raw_address)
          /\ ~Truthy(raw_address) \/ ~IsInstanceStr(raw_address)
          /\ parsed_result' =
                 ParseFailure(IF Truthy(raw_address) THEN raw_address ELSE StrVal(""),
                              "Invalid input: empty or non-string address")
          /\ pc' = AfterParse
          /\ UNCHANGED <<cleaned_address, tag_log, result, raised>>
       \/ /\ Truthy(raw_address) /\ IsInstanceStr(raw_address)
          /\ \E cleaned \in {clean_string(raw_address)} :
             \E o \in TaggerOutcomes(cleaned) :
                /\ cleaned_address' = cleaned
                /\ tag_log' = <<o>>
                /\ CASE o.kind = "ok" ->
                          /\ parsed_result' = ParseSuccess(raw_address, o.tokens, o.type)
                          /\ pc' = AfterParse
                     [] o.kind = "repeated" ->
                          /\ parsed_result' = EmptyDict
                          /\ pc' = "retry"
                     [] OTHER ->
                          /\ parsed_result' =
                                 ParseFailure(raw_address,
                                              "Parsing error: " \o TaggerErrorMessage)
                          /\ pc' = AfterParse
          /\ UNCHANGED <<result, raised>>
    /\ UNCHANGED <<entry, address, raw_address, retry_index, normalized,
                   validation_result, fn>>
    /\ UNCHANGED service_vars

\* One turn of the loop of _handle_repeated_label_error: strategy
\* retry_index + 1 rewrites the cleaned address and the tagger is called on
\* the rewrite.  After the last strategy has failed the function returns its
\* error record.
Retry ==
    /\ pc = "retry"
    /\ LET k == retry_index + 1
       IN \E modified_address \in {ApplyStrategy(k, cleaned_address)} :
          \E o \in TaggerOutcomes(modified_address) :
             /\ tag_log' = Append(tag_log, o)
             /\ IF o.kind = "ok"
                THEN /\ parsed_result' =
                            AlternativeSuccess(raw_address, o.tokens, o.type, k)
                     /\ pc' = AfterParse
                     /\ UNCHANGED retry_index
                ELSE IF k < NumStrategies
                     THEN /\ retry_index' = retry_index + 1
                          /\ UNCHANGED <<pc, parsed_result>>
                     ELSE /\ parsed_result' =
                                 ParseFailure(raw_address,
                                     "Could not parse address: " \o RepeatedLabelMessage)
                          /\ pc' = AfterParse
                          /\ UNCHANGED retry_index
    /\ UNCHANGED <<entry, address, raw_address, cleaned_address, normalized,
                   validation_result, result, raised, fn>>
    /\ UNCHANGED service_vars

\* normalized = normalize_components(parsed_result.get("parsed", {}))
Normalize ==
    /\ pc = "normalize"
    /\ normalized' = normalize_components(Get(parsed_result, "parsed", EmptyDict))
    /\ pc' = "validate"
    /\ UNCHANGED <<entry, address, raw_address, cleaned_address, retry_index, tag_log,
                   parsed_result, validation_result, result, raised, fn>>
    /\ UNCHANGED service_vars

\* validation_result = validate_address(normalized)
Validate ==
    /\ pc = "validate"
    /\ validation_result' = validate_address(normalized)
    /\ pc' = "build"
    /\ UNCHANGED <<entry, address, raw_address, cleaned_address, retry_index, tag_log,
                   parsed_result, normalized, result, raised, fn>>
    /\ UNCHANGED service_vars

\* formatted_result = create_formatted_address_result(address, parsed_result,
\* validation_result); return formatted_result
Build ==
    /\ pc = "build"
    /\ result' = create_formatted_address_result(address, parsed_result, validation_result)
    /\ pc' = "done"
    /\ UNCHANGED <<entry, address, raw_address, cleaned_address, retry_index, tag_log,
                   parsed_result, normalized, validation_result, raised, fn>>
    /\ UNCHANGED service_vars

\* A caller makes a service and calls its process_single_address(address)
\* with the default flags: the input guard of lines 47-53, then the call of
\* parse_address(address) on the address as it was given.
StartAPI ==
    /\ pc = "idle"
    /\ \E a \in Addresses :
          /\ entry' = "api"
          /\ address' = a
          /\ IF TruthRaises(a)
             THEN /\ Raise("api")
                  /\ UNCHANGED <<raw_address, stats>>
             ELSE IF ~Truthy(a) \/ ~IsInstanceStr(a)
                  THEN /\ result' = InvalidInputOutcome.response
                       /\ stats' = _update_stats(stats, FALSE, 0, TRUE)
                       /\ pc' = "done"
                       /\ UNCHANGED <<raw_address, raised>>
                  ELSE /\ raw_address' = a
                       /\ pc' = "tag"
                       /\ UNCHANGED <<result, raised, stats>>
    /\ UNCHANGED <<cleaned_address, retry_index, tag_log, parsed_result, normalized,
                   validation_result, fn, calls, batch, recorded>>

\* Lines 58-112 of the service's process_single_address, once parse_address
\* has returned: normalize, validate, format, build the response, update the
\* statistics, return.
Respond ==
    /\ pc = "respond"
    /\ \E o \in {ServiceRespond(address, parsed_result, Options(TRUE, TRUE, TRUE))} :
          /\ result' = o.response
          /\ stats' = _update_stats(stats, o.is_valid, o.confidence, o.has_error)
    /\ \E n \in {ServiceNormalize(parsed_result)} :
          /\ normalized' = n
          /\ validation_result' = ServiceValidate(n)
    /\ pc' = "done"
    /\ UNCHANGED <<entry, address, raw_address, cleaned_address, retry_index, tag_log,
                   parsed_result, raised, fn, calls, batch, recorded>>

\* A caller of the library calls validate_address(address_dict).
CallValidateAddress ==
    /\ pc = "idle"
    /\ \E d \in ComponentDicts :
           Call("validate_address", <<d>>, validate_address(d))

\* A caller of the library calls validate_address_completeness(address_dict).
CallValidateAddressCompleteness ==
    /\ pc = "idle"
    /\ \E d \in ComponentDicts :
           Call("validate_address_completeness", <<d>>, validate_address_completeness(d))

\* A caller of the library calls calculate_confidence_score(parsed, validations).
CallCalculateConfidenceScore ==
    /\ pc = "idle"
    /\ \E p \in ParsedForScore, v \in ValidationsForScore :
           Call("calculate_confidence_score", <<p, v>>, calculate_confidence_score(p, v))

\* parse_address's call _calculate_parsing_confidence(parsed, address_type),
\* made on its own.
CallCalculateParsingConfidence ==
    /\ pc = "idle"
    /\ \E d \in TokenDicts, type \in AddressTypes :
           Call("_calculate_parsing_confidence", <<d, type>>,
                _calculate_parsing_confidence(d, type))

\* A caller of the library calls format_output_line(address_dict).
CallFormatOutputLine ==
    /\ pc = "idle"
    /\ \E d \in FormattedDicts :
           Call("format_output_line", <<d>>, format_output_line(d))

\* A caller of the library calls validate_zip_code(zip_code).
CallValidateZipCode ==
    /\ pc = "idle"
    /\ \E z \in ZipCodes :
           Call("validate_zip_code", <<z>>, validate_zip_code(z))

\* A caller of the library calls validate_state(state).
CallValidateState ==
    /\ pc = "idle"
    /\ \E s \in StateTexts :
           Call("validate_state", <<s>>, validate_state(s))

\* The words handed to standardize_abbreviations: every key and every value
\* of the three tables, and texts that are in none of them.
AbbreviationWords ==
    UNION { {p[1], p[2]} : p \in STREET_TYPE_ABBREVIATIONS \cup DIRECTIONAL_ABBREVIATIONS
                                  \cup UNIT_ABBREVIATIONS }
    \cup { "", " ", "main", "MAIN", "Street", " street ", " n ", "apt " }

\* A caller of the library calls standardize_abbreviations(text).
CallStandardizeAbbreviations ==
    /\ pc = "idle"
    /\ \E text \in AbbreviationWords :
           Call("standardize_abbreviations", <<text>>, standardize_abbreviations(text))

\* A caller of the library calls normalize_components(parsed).
CallNormalizeComponents ==
    /\ pc = "idle"
    /\ \E parsed \in TokenMappings :
           Call("normalize_components", <<parsed>>, normalize_components(parsed))

\* A caller of the library calls
\* create_formatted_address_result(original_address, parsed, validated).
CallCreateFormattedAddressResult ==
    /\ pc = "idle"
    /\ \E o \in BuilderOriginals, p \in BuilderParsed, v \in BuilderValidated :
           Call("create_formatted_address_result", <<o, p, v>>,
                create_formatted_address_result(o, p, v))

\* The call has returned (or raised) and its locals are gone.
Return ==
    /\ pc = "done"
    /\ pc' = "idle"
    /\ entry' = "none"
    /\ address' = NoneVal
    /\ raw_address' = NoneVal
    /\ cleaned_address' = ""
    /\ retry_index' = 0
    /\ tag_log' = <<>>
    /\ parsed_result' = EmptyDict
    /\ normalized' = EmptyDict
    /\ validation_result' = EmptyDict
    /\ result' = EmptyDict
    /\ raised' = "none"
    /\ fn' = NoCall
    /\ stats' = NewStats
    /\ UNCHANGED <<calls, batch, recorded>>

Next ==
    \/ StartCLI
    \/ StartParse
    \/ StartAPI
    \/ Preprocess
    \/ Parse
    \/ Retry
    \/ Normalize
    \/ Validate
    \/ Build
    \/ Respond
    \/ CallValidateAddress
    \/ CallValidateAddressCompleteness
    \/ CallCalculateConfidenceScore
    \/ CallCalculateParsingConfidence
    \/ CallFormatOutputLine
    \/ CallValidateZipCode
    \/ CallValidateState
    \/ CallCreateFormattedAddressResult
    \/ CallNormalizeComponents
    \/ CallStandardizeAbbreviations
    \/ Return

all_vars == <<vars, service_vars>>

Spec == Init /\ [][Next]_all_vars

NextParse ==
    \/ StartParse
    \/ Parse
    \/ Retry
    \/ Return

\* Callers of parse_address alone.  A call that has begun runs on:
\* parse_address is straight-line code and a loop over three strategies, so
\* a step of Parse or Retry that can be taken is taken.
SpecParse ==
    Init /\ [][NextParse]_all_vars /\ WF_all_vars(Parse) /\ WF_all_vars(Retry)

-----------------------------------------------------------------------------
(* Batch processing: cli.py's process_csv_file over the rows of the address  *)
(* column, and AddressService.process_batch over a list of addresses.        *)

\* float('nan'), which pandas reads from an empty cell.
NaNVal == [t |-> "nan", s |-> "", n |-> 0]

\* pd.isna(v)
PdIsNa(v) == v.t \in {"nan", "none", "na"}

\* cli.py's _empty_result(orig, issue)
_empty_result(orig, issue) ==
    [original |-> StrVal(IF orig.t \in {"none", "nan"} THEN "" ELSE PyStr(orig)),
     parsed |-> EmptyDict, formatted |-> EmptyDict, single_line |-> "",
     multi_line |-> <<>>, confidence |-> 0, valid |-> FALSE,
     issues |-> <<issue>>, address_type |-> "Empty"]

\* The record of cli.py lines 433-443, built in the except branch.
ProcessingErrorResult(addr, msg) ==
    [original |-> StrVal(PyStr(addr)),
     parsed |-> EmptyDict, formatted |-> EmptyDict, single_line |-> "",
     multi_line |-> <<>>, confidence |-> 0, valid |-> FALSE,
     issues |-> <<"Processing error: " \o msg>>, address_type |-> "Error"]

\* str(e) of the TypeError of an object without a truth value.
TruthErrorMessage == "boolean value of NA is ambiguous"

\* The body of the row loop of process_csv_file (lines 426-445): the records
\* row addr may give.
CsvRowResults(addr) ==
    IF PdIsNa(addr) \/ (IsInstanceStr(addr) /\ StrStrip(addr.s) = "")
    THEN {_empty_result(addr, "Missing address")}
    ELSE LET text == StrVal(PyStr(addr))
         IN IF TruthRaises(text)
            THEN {ProcessingErrorResult(addr, TruthErrorMessage)}
            ELSE CliProcessSingleAddress(text)

\* The longest address column and list of addresses handed to a batch.
MaxRows == 3

\* The largest chunk_size handed to process_csv_file.
MaxChunk == 3

\* The sequences of at most n members of S.
SeqsUpTo(S, n) == UNION { [1..k -> S] : k \in 0..n }

\* The cells of the address column of a CSV file: an empty cell, a blank
\* one, an address and a number.
CsvCells == { NaNVal, StrVal(" "), StrVal("123 Main St"), IntVal(77) }

\* The members of the list handed to process_batch.
BatchAddresses == { StrVal(""), StrVal("123 Main St, Austin, TX 78701"), NoneVal, NAVal }

\* process_csv_file(...) is called on a file whose address column holds rows.
StartCsv ==
    /\ pc = "idle"
    /\ batch = NoBatch
    /\ \E rows \in SeqsUpTo(CsvCells, MaxRows), chunk_size \in 1..MaxChunk :
          batch' = [mode |-> "csv", rows |-> rows, chunk_size |-> chunk_size,
                    start |-> 0, end |-> 0, pos |-> 0, chunk_results |-> <<>>,
                    results |-> <<>>, status |-> "chunk"]
    /\ UNCHANGED <<vars, stats, calls, recorded>>

\* for start in range(0, total_rows, chunk_size): end = min(...);
\* chunk_results = []; after the last chunk the function returns results.
CsvChunk ==
    /\ batch.mode = "csv"
    /\ batch.status = "chunk"
    /\ LET total_rows == Len(batch.rows)
       IN IF batch.start < total_rows
          THEN batch' = [batch EXCEPT
                            !.end = Min(batch.start + batch.chunk_size, total_rows),
                            !.chunk_results = <<>>,
                            !.pos = batch.start,
                            !.status = "row"]
          ELSE batch' = [batch EXCEPT !.status = "returned"]
    /\ UNCHANGED <<vars, stats, calls, recorded>>

\* for addr in addresses_series.iloc[start:end]: one row is turned into its
\* record, which is appended to chunk_results.
CsvRow ==
    /\ batch.mode = "csv"
    /\ batch.status = "row"
    /\ batch.pos < batch.end
    /\ \E r \in CsvRowResults(batch.rows[batch.pos + 1]) :
          batch' = [batch EXCEPT !.chunk_results = Append(batch.chunk_results, r),
                                 !.pos = batch.pos + 1]
    /\ UNCHANGED <<vars, stats, calls, recorded>>

\* results.extend(chunk_results), at the end of a chunk.
CsvExtend ==
    /\ batch.mode = "csv"
    /\ batch.status = "row"
    /\ batch.pos = batch.end
    /\ batch' = [batch EXCEPT !.results = batch.results \o batch.chunk_results,
                              !.start = batch.start + batch.chunk_size,
                              !.status = "chunk"]
    /\ UNCHANGED <<vars, stats, calls, recorded>>

\* service.process_batch(addresses, return_parsed, return_confidence) is
\* called on a new service.
StartBatch ==
    /\ pc = "idle"
    /\ batch = NoBatch
    /\ \E rows \in SeqsUpTo(BatchAddresses, MaxRows), flag \in BOOLEAN :
          batch' = [mode |-> "service", rows |-> rows,
                    options |-> Options(flag, flag, TRUE),
                    pos |-> 0, results |-> <<>>,
                    summary |-> [total |-> Len(rows), valid |-> 0, invalid |-> 0,
                                 errors |-> 0],
                    status |-> "row"]
    /\ UNCHANGED <<vars, stats, calls, recorded>>

\* One turn of `for address in addresses` (lines 145-159): the call of
\* process_single_address, whose exception nothing here catches, the append
\* and the update of the summary.
BatchRow ==
    /\ batch.mode = "service"
    /\ batch.status = "row"
    /\ batch.pos < Len(batch.rows)
    /\ LET address_ == batch.rows[batch.pos + 1]
       IN IF TruthRaises(address_)
          THEN /\ batch' = [batch EXCEPT !.status = "raised"]
               /\ UNCHANGED stats
          ELSE \E o \in ServiceProcessSingleAddress(address_, batch.options) :
                  LET is_valid == o.response.valid.is_complete
                      has_errors == o.response.errors # <<>>
                      summary == batch.summary
                  IN /\ batch' =
                           [batch EXCEPT
                               !.results = Append(batch.results, o.response),
                               !.pos = batch.pos + 1,
                               !.summary =
                                   [total |-> summary.total,
                                    valid |-> summary.valid + (IF is_valid THEN 1 ELSE 0),
                                    invalid |-> summary.invalid
                                                + (IF is_valid THEN 0 ELSE 1),
                                    errors |-> summary.errors
                                               + (IF has_errors THEN 1 ELSE 0)]]
                     /\ stats' = _update_stats(stats, o.is_valid, o.confidence,
                                               o.has_error)
    /\ UNCHANGED <<vars, calls, recorded>>

\* return {"results": results, "summary": summary}
BatchFinish ==
    /\ batch.mode = "service"
    /\ batch.status = "row"
    /\ batch.pos = Len(batch.rows)
    /\ batch' = [batch EXCEPT !.status = "returned"]
    /\ UNCHANGED <<vars, stats, calls, recorded>>

\* The batch call has returned (or raised); its locals and the service it
\* was made on are gone.
BatchReturn ==
    /\ batch.mode # "none"
    /\ batch.status \in {"returned", "raised"}
    /\ batch' = NoBatch
    /\ stats' = NewStats
    /\ UNCHANGED <<vars, calls, recorded>>

NextBatch ==
    \/ StartCsv
    \/ CsvChunk
    \/ CsvRow
    \/ CsvExtend
    \/ StartBatch
    \/ BatchRow
    \/ BatchFinish
    \/ BatchReturn

SpecBatch == Init /\ [][NextBatch]_all_vars

-----------------------------------------------------------------------------
(* cli.py: the batch command, from its file checks to the exit code of the   *)
(* process.  sys.exit(code) raises SystemExit, which is a BaseException and  *)
(* not an Exception.                                                         *)

RECURSIVE SplitComma(_)
\* s.split(",")
SplitComma(s) ==
    LET commas == {i \in 1..Len(s) : At(s, i) = ","}
    IN IF commas = {} THEN <<s>>
       ELSE <<SubSeq(s, 1, MinOf(commas) - 1)>>
            \o SplitComma(SubSeq(s, MinOf(commas) + 1, Len(s)))

\* os.path.splitext(path)[1]: the text from the last dot of the last path
\* segment, when a character other than a dot stands before it there.
SplitExt(path) ==
    LET slashes == {i \in 1..Len(path) : At(path, i) = "/"}
        base == IF slashes = {} THEN 1
                ELSE 1 + (CHOOSE i \in slashes : \A j \in slashes : j <= i)
        dots == {i \in base..Len(path) :
                    /\ At(path, i) = "."
                    /\ \E j \in base..(i - 1) : At(path, j) # "."}
    IN IF dots = {} THEN ""
       ELSE SubSeq(path, CHOOSE i \in dots : \A j \in dots : j <= i, Len(path))

\* validate_file_extension(file_path, [".csv"])
validate_file_extension(file_path) ==
    IF file_path = "" THEN FALSE ELSE StrLower(SplitExt(file_path)) = ".csv"

\* address_keywords of detect_address_columns.
address_keywords ==
    {"address", "street", "city", "state", "zip", "postal", "location", "addr",
     "street_address", "shipping_address", "billing_address", "mailing_address"}

\* detect_address_columns(df), as the set of the columns it lists.
detect_address_columns(columns) ==
    {col \in columns : \E keyword \in address_keywords : Contains(StrLower(col), keyword)}

\* The classes `except Exception` catches, of those raised here.
ExceptionClasses == {"Exception", "ValueError", "OSError"}

\* The handler of the batch command, `except Exception as e`, catches the
\* exception of class class.
HandlerCatches_BaseException(class) == class \in ExceptionClasses \cup {"SystemExit"}

HandlerCatches(class) == class \in ExceptionClasses

NoException == [class |-> "none", code |-> 0]

\* The part of process_csv_file that determines the address column
\* (lines 340-390) for a file with the given columns: the exception it
\* raises, or none.
AddressColumnCheck(columns, address_column, address_columns, auto_combine) ==
    LET ValueError == [class |-> "ValueError", code |-> 0]
        parts == SplitComma(PyStr(address_columns))
        columns_to_combine == {StrStrip(parts[i]) : i \in 1..Len(parts)}
        detected_cols == detect_address_columns(columns)
        columns_lower == {StrLower(col) : col \in columns}
    IN IF Truthy(address_columns)
       THEN IF columns_to_combine \subseteq columns THEN NoException ELSE ValueError
       ELSE IF auto_combine /\ ~Truthy(address_column) /\ detected_cols # {}
            THEN NoException
            ELSE IF Truthy(address_column)
                 THEN IF address_column.s \in columns THEN NoException ELSE ValueError
                 ELSE IF "address" \in columns_lower THEN NoException ELSE ValueError

\* The input paths of the batch command.
InputPaths == {"in.csv", "IN.CSV", "in.txt", "in", ".csv", "a.csv/in.txt", ""}

\* The column sets of the input files.
ColumnSets ==
    { {"address"}, {"Address", "id"}, {"id"}, {"street", "city"}, {"addr"} }

\* The values of --address-column and of --address-columns.
ColumnOptions == { NoneVal, StrVal("address"), StrVal("addr") }

ColumnsOptions == { NoneVal, StrVal("street, city"), StrVal("street,zip") }

\* The log lines of the command's own error paths.
InvalidFormatLine == "Invalid input file format"

MissingFileLine == "Input file does not exist"

HandlerLine == "Error processing batch file"

\* `batch` is invoked on a path; the environment decides whether the file
\* exists, whether pandas can read it and whether the output can be written.
StartCommand ==
    /\ pc = "idle"
    /\ batch = NoBatch
    /\ \E input \in InputPaths, exists \in BOOLEAN, readable \in BOOLEAN,
          columns \in ColumnSets, address_column \in ColumnOptions,
          address_columns \in ColumnsOptions, auto_combine \in BOOLEAN,
          writable \in BOOLEAN :
          batch' = [mode |-> "command", status |-> "validate", input |-> input,
                    exists |-> exists, readable |-> exists /\ readable,
                    columns |-> columns, address_column |-> address_column,
                    address_columns |-> address_columns,
                    auto_combine |-> auto_combine, writable |-> writable,
                    log |-> <<>>, exception |-> NoException, exit_code |-> -1]
    /\ UNCHANGED <<vars, stats, calls, recorded>>

\* Lines 210-217: the two checks of the input file, each ending in
\* sys.exit(1) inside the try block.
CommandValidate ==
    /\ batch.mode = "command"
    /\ batch.status = "validate"
    /\ batch' =
          IF ~validate_file_extension(batch.input)
          THEN [batch EXCEPT !.log = Append(batch.log, InvalidFormatLine),
                             !.exception = [class |-> "SystemExit", code |-> 1],
                             !.status = "except"]
          ELSE IF ~batch.exists
               THEN [batch EXCEPT !.log = Append(batch.log, MissingFileLine),
                                  !.exception = [class |-> "SystemExit", code |-> 1],
                                  !.status = "except"]
               ELSE [batch EXCEPT !.status = "process"]
    /\ UNCHANGED <<vars, stats, calls, recorded>>

\* Lines 222-230: process_csv_file reads the file and determines the address
\* column, raising what pandas raised or a ValueError; the rows themselves
\* never raise (each is processed inside its own try).
CommandProcess ==
    /\ batch.mode = "command"
    /\ batch.status = "process"
    /\ \E check \in {AddressColumnCheck(batch.columns, batch.address_column,
                                        batch.address_columns, batch.auto_combine)} :
          batch' =
             IF ~batch.readable
             THEN [batch EXCEPT !.log = Append(batch.log, "Error reading CSV file"),
                                !.exception = [class |-> "OSError", code |-> 0],
                                !.status = "except"]
             ELSE IF check # NoException
                  THEN [batch EXCEPT !.log = Append(batch.log, "Address column not found"),
                                     !.exception = check,
                                     !.status = "except"]
                  ELSE [batch EXCEPT !.status = "write"]
    /\ UNCHANGED <<vars, stats, calls, recorded>>

\* Lines 232-260: the output, the report and the summary are written; the
\* command returns and the process exits with code 0.
CommandWrite ==
    /\ batch.mode = "command"
    /\ batch.status = "write"
    /\ batch' =
          IF batch.writable
          THEN [batch EXCEPT !.log = Append(batch.log, "Processing complete"),
                             !.exit_code = 0,
                             !.status = "exited"]
          ELSE [batch EXCEPT !.exception = [class |-> "OSError", code |-> 0],
                             !.status = "except"]
    /\ UNCHANGED <<vars, stats, calls, recorded>>

\* Lines 262-264: an exception raised in the try block meets the handler.
\* A caught one is logged and the handler calls sys.exit(1); a SystemExit
\* is not caught and ends the process with its own code.
CommandExcept ==
    /\ batch.mode = "command"
    /\ batch.status = "except"
    /\ batch' =
          IF HandlerCatches(batch.exception.class)
          THEN [batch EXCEPT !.log = Append(batch.log, HandlerLine),
                             !.exit_code = 1,
                             !.status = "exited"]
          ELSE [batch EXCEPT !.exit_code = batch.exception.code,
                             !.status = "exited"]
    /\ UNCHANGED <<vars, stats, calls, recorded>>

\* The process has ended.
CommandReturn ==
    /\ batch.mode = "command"
    /\ batch.status = "exited"
    /\ batch' = NoBatch
    /\ UNCHANGED <<vars, stats, calls, recorded>>

NextCommand ==
    \/ StartCommand
    \/ CommandValidate
    \/ CommandProcess
    \/ CommandWrite
    \/ CommandExcept
    \/ CommandReturn

SpecCommand == Init /\ [][NextCommand]_all_vars

-----------------------------------------------------------------------------
(* api/middleware.py: RateLimitMiddleware.  One middleware object holds      *)
(* request_counts for every client; dispatch has no await between its first  *)
(* read and its last write of request_counts, so the bookkeeping of one      *)
(* request is one step.  time() is counted in whole seconds from the         *)
(* construction of the middleware and does not go backwards.                 *)

\* The age, in seconds, from which line 30 drops a timestamp.
WindowSeconds == 60

\* The largest requests_per_minute a middleware is built with.
MaxLimit == 2

\* The latest time of a request.
MaxTime == 150

\* The seconds between one request and the next.
TimeSteps == {0, 30, 60}

\* client_ip: the host of the peer, "unknown" for a request without one.
Clients == {"10.0.0.1", "unknown"}

\* [t for t in times if current_time - t < 60]
Fresh(times, current_time) ==
    SelectSeq(times, LAMBDA t : current_time - t < WindowSeconds)

\* A plausible slip: the limit is reached one request late.
LimitReached_Above(count, requests_per_minute) == count > requests_per_minute

\* len(self.request_counts[client_ip]) >= self.requests_per_minute
LimitReached(count, requests_per_minute) == count >= requests_per_minute

\* dispatch up to the call of call_next: the request_counts it leaves and
\* whether it raised HTTPException(429).
dispatch(request_counts, requests_per_minute, client_ip, current_time) ==
    LET cleaned ==
            IF client_ip \in DOMAIN request_counts
            THEN Put(request_counts, client_ip,
                     Fresh(request_counts[client_ip], current_time))
            ELSE request_counts
    IN IF /\ client_ip \in DOMAIN cleaned
          /\ LimitReached(Len(cleaned[client_ip]), requests_per_minute)
       THEN [request_counts |-> cleaned, rejected |-> TRUE]
       ELSE [request_counts |->
                 Put(cleaned, client_ip,
                     Append(Get(cleaned, client_ip, <<>>), current_time)),
             rejected |-> FALSE]

\* RateLimitMiddleware(app, requests_per_minute)
NewMiddleware ==
    /\ pc = "idle"
    /\ batch = NoBatch
    /\ \E requests_per_minute \in 1..MaxLimit :
          batch' = [mode |-> "middleware",
                    requests_per_minute |-> requests_per_minute,
                    request_counts |-> EmptyDict,
                    current_time |-> 0, client_ip |-> "", rejected |-> FALSE]
    /\ UNCHANGED <<vars, stats, calls, recorded>>

\* A request of some client reaches the middleware, no earlier than the
\* request before it.
DispatchRequest ==
    /\ batch.mode = "middleware"
    /\ \E client_ip \in Clients, step \in TimeSteps :
          /\ batch.current_time + step <= MaxTime
          /\ \E out \in {dispatch(batch.request_counts, batch.requests_per_minute,
                                  client_ip, batch.current_time + step)} :
                batch' = [batch EXCEPT !.request_counts = out.request_counts,
                                       !.current_time = batch.current_time + step,
                                       !.client_ip = client_ip,
                                       !.rejected = out.rejected]
    /\ UNCHANGED <<vars, stats, calls, recorded>>

NextRateLimit ==
    \/ NewMiddleware
    \/ DispatchRequest

SpecRateLimit == Init /\ [][NextRateLimit]_all_vars

-----------------------------------------------------------------------------
(* Concurrent calls on the one shared service.  Each thread has reached the  *)
(* call of _update_stats that ends its process_single_address; the method    *)
(* takes no lock, and `self._stats[key] += 1` is a read of the entry and a   *)
(* later write of the sum, between which another thread may run.             *)

\* The threads that call the service.
NumThreads == 2

Threads == 1..NumThreads

\* The arguments (is_valid, confidence, has_error) with which
\* process_single_address calls _update_stats: a valid address, an invalid
\* one that was parsed, and an input that was rejected.
UpdateArgs ==
    { [is_valid |-> TRUE, confidence |-> 950, has_error |-> FALSE],
      [is_valid |-> FALSE, confidence |-> 575, has_error |-> TRUE],
      [is_valid |-> FALSE, confidence |-> 0, has_error |-> TRUE] }

\* The counters one call of _update_stats increments, in the order of its
\* statements (lines 189-196).
CountersOf(args) ==
    <<"total_processed">>
    \o (IF args.is_valid THEN <<"total_valid">> ELSE <<"total_invalid">>)
    \o (IF args.has_error THEN <<"total_errors">> ELSE <<>>)

\* Where the call goes on after its counter number i.
AfterCounter(c, i) ==
    IF i < Len(CountersOf(c.args)) THEN [c EXCEPT !.pc = "read", !.i = i + 1]
    ELSE IF c.args.confidence > 0 THEN [c EXCEPT !.pc = "scores"]
         ELSE [c EXCEPT !.pc = "done"]

\* Thread t enters _update_stats(is_valid, confidence, has_error).
StartUpdate(t) ==
    /\ pc = "idle"
    /\ batch = NoBatch
    /\ t \notin DOMAIN calls
    /\ \E args \in UpdateArgs :
          calls' = [u \in DOMAIN calls \cup {t} |->
                       IF u = t THEN [pc |-> "read", i |-> 1, tmp |-> 0, args |-> args]
                       ELSE calls[u]]
    /\ UNCHANGED <<vars, stats, batch, recorded>>

\* The read of `self._stats[key] += 1`: thread t loads the counter.
ReadCounter(t) ==
    /\ t \in DOMAIN calls
    /\ calls[t].pc = "read"
    /\ LET key == CountersOf(calls[t].args)[calls[t].i]
       IN calls' = [calls EXCEPT ![t] = [@ EXCEPT !.pc = "write", !.tmp = stats[key]]]
    /\ UNCHANGED <<vars, stats, batch, recorded>>

\* The write of `self._stats[key] += 1`: thread t stores what it loaded, plus 1.
WriteCounter(t) ==
    /\ t \in DOMAIN calls
    /\ calls[t].pc = "write"
    /\ LET key == CountersOf(calls[t].args)[calls[t].i]
       IN /\ stats' = [stats EXCEPT ![key] = calls[t].tmp + 1]
          /\ calls' = [calls EXCEPT ![t] = AfterCounter(@, calls[t].i)]
    /\ UNCHANGED <<vars, batch, recorded>>

\* Lines 198-202: thread t appends its confidence to confidence_scores and
\* cuts the list back.
AppendScore(t) ==
    /\ t \in DOMAIN calls
    /\ calls[t].pc = "scores"
    /\ stats' = [stats EXCEPT !.confidence_scores =
                                  TrimWindow(Append(@, calls[t].args.confidence))]
    /\ calls' = [calls EXCEPT ![t] = [@ EXCEPT !.pc = "done"]]
    /\ UNCHANGED <<vars, batch, recorded>>

NextThreads ==
    \E t \in Threads :
        \/ StartUpdate(t)
        \/ ReadCounter(t)
        \/ WriteCounter(t)
        \/ AppendScore(t)

SpecThreads == Init /\ [][NextThreads]_all_vars

-----------------------------------------------------------------------------
(* The long-lived service: calls of process_single_address made one after    *)
(* the other, each ending with its call of _update_stats.                    *)

\* The most scores recorded in a run: three more than the window holds.
MaxRecorded == 1003

\* The most calls of a run that record no score.
MaxUnscored == 2

\* The confidence of the call that records score number k of a run: the
\* scores 50.0, 52.5, ..., 100.0 in turn (in tenths).
ScoreAt(k) == 500 + 25 * (k % 21)

\* A call whose confidence is positive ends: _update_stats counts it and
\* appends its confidence to the window.
RecordScored ==
    /\ pc = "idle"
    /\ batch = NoBatch
    /\ calls = <<>>
    /\ Len(recorded) < MaxRecorded
    /\ LET confidence == ScoreAt(Len(recorded) + 1)
           is_valid == confidence >= 900
       IN /\ stats' = _update_stats(stats, is_valid, confidence, ~is_valid)
          /\ recorded' = Append(recorded, confidence)
    /\ UNCHANGED <<vars, calls, batch>>

\* A call whose confidence is 0 ends: _update_stats counts it and leaves the
\* window alone.
RecordUnscored ==
    /\ pc = "idle"
    /\ batch = NoBatch
    /\ calls = <<>>
    /\ stats.total_processed - Len(recorded) < MaxUnscored
    /\ stats' = _update_stats(stats, FALSE, 0, TRUE)
    /\ UNCHANGED <<vars, calls, batch, recorded>>

NextStats ==
    \/ RecordScored
    \/ RecordUnscored

SpecStats == Init /\ [][NextStats]_all_vars

-----------------------------------------------------------------------------
(* Properties.  The results of a call are read while it stands at "done".    *)

\* The call of entry point e stands at its end.
Done(e) == pc = "done" /\ entry = e

\* The direct call of library function op stands at its end.
Called(op) == Done("lib") /\ fn.op = op

\* An input that is empty, whitespace-only or not a string (None or an int).
InvalidInput(a) == a.t \in {"none", "int"} \/ (a.t = "str" /\ StrStrip(a.s) = "")

\* Key k holds a non-empty value in mapping d.
Filled(d, k) == k \in DOMAIN d /\ d[k] # ""

\* C1: every call of process_single_address whose input is empty,
\* whitespace-only or not a string returns without raising, and its result
\* has confidence 0, valid false and at least one issue.
C1_InvalidInputRejected ==
    (Done("cli") /\ InvalidInput(address)) =>
        /\ raised = "none"
        /\ result.confidence = 0
        /\ result.valid = FALSE
        /\ result.issues # <<>>

\* C2: no exception of a stage leaves process_single_address: the call ends
\* with a result record (valid false, confidence 0, one issue), never with
\* an exception handed to its caller.
C2_ExceptionsCaught ==
    Done("cli") =>
        \/ raised = "none"
        \/ /\ result # EmptyDict
           /\ result.valid = FALSE
           /\ result.confidence = 0
           /\ Len(result.issues) = 1

\* The pipeline at hand has called validate_address: the service calls it
\* only on components that are not empty.
ValidatorRan ==
    /\ validation_result # EmptyDict
    /\ entry = "api" => normalized # EmptyDict

\* valid = (zip_valid and state_valid and is_complete) in an outcome of
\* validate_address.
ValidIffAllChecks(outcome) ==
    outcome.valid = (outcome.zip_valid /\ outcome.state_valid /\ outcome.is_complete)

\* C3: every outcome of validate_address, called directly on any components
\* mapping (the empty one included) or by the pipeline, has
\* valid = (zip_valid and state_valid and is_complete).
C3_ValidIffAllChecks ==
    /\ Called("validate_address") => ValidIffAllChecks(fn.out)
    /\ ValidatorRan => ValidIffAllChecks(validation_result)

\* C3's case: ZIP and state are valid and the address is incomplete, so the
\* outcome is not valid.
C3_Witness ==
    /\ Called("validate_address")
    /\ fn.out.zip_valid /\ fn.out.state_valid
    /\ ~fn.out.is_complete
    /\ ~fn.out.valid

\* C4: for a formatted address that holds street_number, street_name, city,
\* state and zip_code and nothing else, format_output_line returns
\* "<number> <street>, <city> <state> <zip>" (or, as the example of the
\* claim is punctuated, "<number> <street>, <city>, <state> <zip>").
C4_SingleLineSpaceJoined ==
    LET d == fn.args[1]
    IN (/\ Called("format_output_line")
        /\ DOMAIN d = {"street_number", "street_name", "city", "state", "zip_code"}
        /\ \A k \in DOMAIN d : d[k] # "") =>
           \/ fn.out = d.street_number \o " " \o d.street_name \o ", "
                       \o d.city \o " " \o d.state \o " " \o d.zip_code
           \/ fn.out = d.street_number \o " " \o d.street_name \o ", "
                       \o d.city \o ", " \o d.state \o " " \o d.zip_code

\* The rewrite of rung k of the retry ladder, as the ladder is described:
\* (1) AND and & are stripped, (2) the text before the first comma is kept,
\* (3) the spacing around commas is collapsed.
LadderRewrite(k, text) ==
    CASE k = 1 -> ReSub(text, 1, MatchAndAmp, "")
      [] k = 2 -> BeforeComma(text)
      [] OTHER -> SubCommaSpacing(text)

C6_ErrorImpliesEmpty ==
    (parsed_result # EmptyDict /\ parsed_result.error # NoneVal) =>
        /\ parsed_result.parsed = EmptyDict
        /\ parsed_result.confidence = 0

\* C6's case: parse_address has returned an error after the tagger raised on
\* the first call and on all three rungs.
C6_Witness ==
    /\ Done("parse")
    /\ Len(tag_log) = 4
    /\ \A k \in 1..4 : tag_log[k].kind # "ok"
    /\ parsed_result.error # NoneVal

\* C7: when parse_address returned an error, the issues of the result of the
\* pipeline hold an entry that states it: the error's text or, for an input
\* that is empty or not a string, an "invalid input" issue.
C7_ParseErrorCarriedForward ==
    (/\ Done("cli")
     /\ raised = "none"
     /\ parsed_result.error # NoneVal) =>
        \E i \in 1..Len(result.issues) :
            \/ Contains(result.issues[i], parsed_result.error.s)
            \/ Contains(StrUpper(result.issues[i]), "INVALID INPUT")

\* C8: validate_address_completeness returns complete iff street_number,
\* street_name, city and state are all filled or po_box, city and state are
\* all filled; when it returns incomplete the missing list is the unfilled
\* ones of street_number, street_name, city, state in that order, and when
\* the PO Box rule applies the missing list is empty.
C8_Completeness ==
    Called("validate_address_completeness") =>
        LET d == fn.args[1]
            base == <<"street_number", "street_name", "city", "state">>
            base_rule == \A i \in 1..Len(base) : Filled(d, base[i])
            po_box_rule == Filled(d, "po_box") /\ Filled(d, "city") /\ Filled(d, "state")
        IN /\ fn.out.is_complete = (base_rule \/ po_box_rule)
           /\ ~fn.out.is_complete =>
                 fn.out.missing = SelectSeq(base, LAMBDA f : ~Filled(d, f))
           /\ po_box_rule => fn.out.missing = <<>>

\* C8's case: the PO Box rule makes an address without street fields
\* complete, with nothing missing.
C8_Witness ==
    /\ Called("validate_address_completeness")
    /\ Filled(fn.args[1], "po_box")
    /\ ~Filled(fn.args[1], "street_number")
    /\ ~Filled(fn.args[1], "street_name")
    /\ fn.out.is_complete
    /\ fn.out.missing = <<>>

\* C9: for every parser confidence c from 0 to 100 and every combination of
\* the three flags, calculate_confidence_score returns c plus 10 or minus 20
\* for the ZIP, plus 10 or minus 20 for the state, plus 15 or minus 25 for
\* completeness, clamped to [0, 100]: 100 for c = 80 with all flags true and
\* 0 for c = 50 with all flags false (scores in tenths).
C9_ConfidenceScore ==
    (/\ Called("calculate_confidence_score")
     /\ "confidence" \in DOMAIN fn.args[1]
     /\ fn.args[2] # EmptyDict) =>
        LET c == fn.args[1].confidence
            v == fn.args[2]
            sum == c + (IF v.zip_valid THEN 100 ELSE -200)
                     + (IF v.state_valid THEN 100 ELSE -200)
                     + (IF v.is_complete THEN 150 ELSE -250)
            all_true == v.zip_valid /\ v.state_valid /\ v.is_complete
            all_false == ~v.zip_valid /\ ~v.state_valid /\ ~v.is_complete
        IN /\ fn.out = (IF sum < 0 THEN 0 ELSE IF sum > 1000 THEN 1000 ELSE sum)
           /\ fn.out \in 0..1000
           /\ (c = 800 /\ all_true) => fn.out = 1000
           /\ (c = 500 /\ all_false) => fn.out = 0

\* C9's case: confidence 50 with all three flags false, where the sum is
\* negative and the score is 0.
C9_Witness ==
    /\ Called("calculate_confidence_score")
    /\ fn.args[1] = [confidence |-> 500]
    /\ fn.args[2] = [zip_valid |-> FALSE, state_valid |-> FALSE, is_complete |-> FALSE]
    /\ fn.out = 0

\* C10: the parsing confidence is 0 for empty tokens and otherwise
\* min(100, 50 + 30 r/4 + 20 o/2 + b), r counting street number, street
\* name, city and state, o counting ZIP and street-type modifier, and b
\* being 10 exactly when the address type is "PO Box" and the tokens hold a
\* box identifier (a label the normalizer folds into po_box as the box's
\* identifier: USPSBoxID or POBox) and a place name (scores in tenths).
C10_ParsingConfidence ==
    Called("_calculate_parsing_confidence") =>
        LET tokens == fn.args[1]
            has(label) == label \in DOMAIN tokens
            count(labels) == Cardinality({l \in labels : has(l)})
            r == count({"AddressNumber", "StreetName", "PlaceName", "StateName"})
            o == count({"ZipCode", "StreetNamePostModifier"})
            box_identifier == has("USPSBoxID") \/ has("POBox")
            b == IF fn.args[2] = "PO Box" /\ box_identifier /\ has("PlaceName")
                 THEN 100 ELSE 0
            score == 500 + (300 * r) \div 4 + (200 * o) \div 2 + b
        IN /\ fn.out = (IF DOMAIN tokens = {} THEN 0
                        ELSE IF score > 1000 THEN 1000 ELSE score)
           /\ fn.out \in 0..1000

\* The characters of z that are digits or hyphens, in order.
DigitsAndHyphens(z) ==
    LET kept(c) == IF c \in DigitSet \cup {"-"} THEN c ELSE ""
    IN MapChars(z, kept)

\* s is five digits, or five digits, a hyphen and four digits.
ZipShape(s) ==
    LET digits(a, b) == \A i \in a..b : At(s, i) \in DigitSet
    IN \/ Len(s) = 5 /\ digits(1, 5)
       \/ Len(s) = 10 /\ digits(1, 5) /\ At(s, 6) = "-" /\ digits(7, 10)

\* C11: validate_zip_code(z) is valid iff z, once every character that is
\* neither a digit nor a hyphen is deleted, is five digits or five digits, a
\* hyphen and four digits; an empty z is invalid with the message "ZIP code
\* is missing" and every other invalid z carries the message that explains
\* the format.
C11_ZipCodeValidation ==
    Called("validate_zip_code") =>
        LET z == fn.args[1]
        IN /\ fn.out.ok = ZipShape(DigitsAndHyphens(z))
           /\ fn.out.ok => fn.out.msg = ""
           /\ z = "" => fn.out.msg = "ZIP code is missing"
           /\ (z # "" /\ ~fn.out.ok) =>
                 fn.out.msg = "Invalid ZIP code format: " \o z
                     \o ". Expected 5 digits or ZIP+4 format (12345-6789)"

\* C11's case: a ZIP code that is valid only because the characters that
\* are neither digits nor hyphens were deleted from within it.
C11_Witness ==
    /\ Called("validate_zip_code")
    /\ fn.args[1] = "TX 78701"
    /\ fn.out.ok

\* The 50 states, the District of Columbia and the five territories.
UsAbbreviations ==
    { "AL", "AK", "AZ", "AR", "CA", "CO", "CT", "DE", "FL", "GA", "HI", "ID", "IL",
      "IN", "IA", "KS", "KY", "LA", "ME", "MD", "MA", "MI", "MN", "MS", "MO", "MT",
      "NE", "NV", "NH", "NJ", "NM", "NY", "NC", "ND", "OH", "OK", "OR", "PA", "RI",
      "SC", "SD", "TN", "TX", "UT", "VT", "VA", "WA", "WV", "WI", "WY" }
    \cup { "DC" }
    \cup { "AS", "GU", "MP", "PR", "VI" }

\* C12: validate_state(s) is valid iff s, trimmed and put in upper case, is
\* one of the 56 abbreviations (50 states, DC, 5 territories) or the full
\* name of one of them, every one of the 56 having a full name; an empty s
\* carries the message "State is missing" and every other invalid s an
\* "Invalid state" message.
C12_StateValidation ==
    Called("validate_state") =>
        LET s == fn.args[1]
            key == StrStrip(StrUpper(s))
            named == {p \in STATE_NAME_TO_ABBREV : p[1] = key}
        IN /\ Cardinality(UsAbbreviations) = 56
           /\ {p[2] : p \in STATE_NAME_TO_ABBREV} = UsAbbreviations
           /\ Cardinality(STATE_NAME_TO_ABBREV) = 56
           /\ fn.out.ok = (key \in UsAbbreviations
                           \/ \E p \in named : p[2] \in UsAbbreviations)
           /\ fn.out.ok => fn.out.msg = ""
           /\ s = "" => fn.out.msg = "State is missing"
           /\ (s # "" /\ ~fn.out.ok) =>
                 /\ MatchLit(fn.out.msg, 1, "Invalid state: " \o s)

\* C12's case: the full name of a territory, in lower case and padded with
\* whitespace, is valid.
C12_Witness ==
    /\ Called("validate_state")
    /\ fn.args[1] = " puerto rico\t"
    /\ fn.out.ok

\* The batch call has ended: it has returned its results or raised.
BatchEnded == batch.mode # "none" /\ batch.status \in {"returned", "raised"}

\* A row of a batch that holds no address: a missing value or blank text.
EmptyRow(v) == PdIsNa(v) \/ (IsInstanceStr(v) /\ StrStrip(v.s) = "")

\* Record r is what row v of the batch in progress may be turned into.
RecordOfRow(r, v) ==
    IF batch.mode = "csv"
    THEN /\ r \in CsvRowResults(v)
         /\ EmptyRow(v) => (~r.valid /\ r.confidence = 0 /\ r.issues # <<>>)
    ELSE /\ r \in {o.response : o \in ServiceProcessSingleAddress(v, batch.options)}
         /\ EmptyRow(v) =>
               /\ ~r.valid.is_complete
               /\ Get(r, "confidence", 0) = 0
               /\ r.errors # <<>>

\* C13: a batch call over N rows (process_csv_file for every chunk_size >= 1,
\* AddressService.process_batch) ends by returning exactly N records, record
\* i being the record of row i; an empty row is turned into an invalid
\* record with confidence 0 and an issue, and no row stops the rows after it
\* from being processed: the call never ends by raising.
C13_BatchYieldsAllRecords ==
    BatchEnded =>
        /\ batch.status = "returned"
        /\ Len(batch.results) = Len(batch.rows)
        /\ \A i \in 1..Len(batch.rows) : RecordOfRow(batch.results[i], batch.rows[i])

\* The calls of _update_stats that have completed.
Completed == {t \in DOMAIN calls : calls[t].pc = "done"}

C15_WindowHoldsLatest ==
    LET window == stats.confidence_scores
        k == Len(recorded)
        m == IF k < 1000 THEN k ELSE 1000
    IN /\ Len(window) <= 1000
       /\ window = SubSeq(recorded, k - m + 1, k)

\* C15's case: more than 1000 scores were recorded and the oldest of them
\* has left the window.
C15_Witness ==
    /\ Len(recorded) = 1002
    /\ Len(stats.confidence_scores) = 1000
    /\ stats.confidence_scores[1] = recorded[3]
    /\ stats.confidence_scores[1] # recorded[1]

\* What the CLI pipeline builds from what parse_address returned.
CliBuild(a, p) ==
    create_formatted_address_result(
        a, p, validate_address(normalize_components(Get(p, "parsed", EmptyDict))))

\* The text the CLI pipeline hands the tagger for address a: the address
\* preprocessed, then cleaned by parse_address.
CliTaggedText(a) == clean_string(StrVal(handle_edge_cases(a)))

\* C16: the CLI pipeline and the service pipeline run the same stages, so
\* both hand the tagger the preprocessed text of the address and, the tagger
\* answering alike, the response of the service holds the single line, the
\* validity and the issues of the CLI's result.
C16_SamePipeline ==
    /\ (entry \in {"cli", "api"} /\ tag_log # <<>>) =>
           tag_log[1].text = CliTaggedText(address)
    /\ (/\ Done("api")
        /\ raised = "none"
        /\ parsed_result # EmptyDict
        /\ tag_log[1].text = CliTaggedText(address)) =>
           LET cli == CliBuild(address, parsed_result)
           IN /\ result.formatted = cli.single_line
              /\ (result.valid.state /\ result.valid.zip /\ result.valid.is_complete)
                     = cli.valid
              /\ result.errors = cli.issues

\* Record r copies the original o, the confidence of parser result p and the
\* valid and issues of validation outcome v.
CopiesItsArguments(r, o, p, v) ==
    /\ r.original = o
    /\ r.confidence = Get(p, "confidence", 0)
    /\ r.valid = Get(v, "valid", FALSE)
    /\ r.issues = Get(v, "issues", <<>>)

\* C17: the record create_formatted_address_result returns has the original
\* address it was given, unchanged, the confidence of the parser's result
\* (not the one the validator computed) and the valid and issues of the
\* validator's outcome, whether it is called directly or by the pipeline.
C17_BuilderCopies ==
    /\ Called("create_formatted_address_result") =>
           CopiesItsArguments(fn.out, fn.args[1], fn.args[2], fn.args[3])
    /\ (Done("cli") /\ raised = "none") =>
           CopiesItsArguments(result, address, parsed_result, validation_result)

\* C17's case: the validator's confidence differs from the parser's, and the
\* original is a text that cleaning would change.
C17_Witness ==
    /\ Called("create_formatted_address_result")
    /\ fn.args[1] = StrVal("123   Main   Street,  Austin , TX 78701")
    /\ Get(fn.args[2], "confidence", 0) > 0
    /\ "confidence" \in DOMAIN fn.args[3]
    /\ fn.args[3].confidence < fn.args[2].confidence
    /\ ~fn.args[3].valid
    /\ fn.args[3].issues # <<>>
    /\ fn.out.confidence = fn.args[2].confidence

\* The lines the claim gives for formatted components f.
ClaimedLines(f) ==
    LET has(k) == Filled(f, k)
        street == IF has("street_number") /\ has("street_name")
                  THEN <<f.street_number \o " " \o f.street_name>>
                  ELSE IF has("street_name") THEN <<f.street_name>> ELSE <<>>
        unit == IF has("unit") THEN <<f.unit>> ELSE <<>>
        line1 == IF has("po_box") THEN <<f.po_box>>
                 ELSE IF street \o unit # <<>> THEN <<Join(" ", street \o unit)>>
                      ELSE <<>>
        city_state_zip ==
            (IF has("city") THEN <<f.city>> ELSE <<>>)
            \o (IF has("state") THEN <<f.state>> ELSE <<>>)
            \o (IF has("zip_code") THEN <<f.zip_code>> ELSE <<>>)
    IN line1 \o (IF city_state_zip # <<>> THEN <<Join(" ", city_state_zip)>> ELSE <<>>)

\* The multi_line of record r is one or two lines, and they are the lines
\* the claim gives.
OneOrTwoLines(r) ==
    /\ Len(r.multi_line) \in {1, 2}
    /\ r.multi_line = ClaimedLines(r.formatted)

\* C18: in every record create_formatted_address_result produces, multi_line
\* is a sequence of 1 or 2 lines: first the PO Box alone when there is one,
\* otherwise street number and name and the unit joined by spaces; then
\* city, state and ZIP joined by spaces when any of them is present.
C18_MultiLine ==
    /\ Called("create_formatted_address_result") => OneOrTwoLines(fn.out)
    /\ (Done("cli") /\ raised = "none") => OneOrTwoLines(result)

\* Both box labels of token mapping parsed have non-empty values.
BothBoxLabels(parsed) == Filled(parsed, "USPSBoxID") /\ Filled(parsed, "USPSBoxType")

\* C19: whenever the token mapping holds non-empty values for both USPSBoxID
\* and USPSBoxType, the po_box of normalize_components's result is the
\* cleaned USPSBoxID value, whatever other labels (POBox included) are
\* present, for direct calls and in the pipeline.
C19_BoxIdentifierWins ==
    /\ (Called("normalize_components") /\ BothBoxLabels(fn.args[1])) =>
           fn.out.po_box = clean_string(StrVal(fn.args[1].USPSBoxID))
    /\ (normalized # EmptyDict /\ BothBoxLabels(parsed_result.parsed)) =>
           normalized.po_box = clean_string(StrVal(parsed_result.parsed.USPSBoxID))

\* C19's case: POBox, USPSBoxID and USPSBoxType are all filled, the
\* identifier needs cleaning, and po_box is the cleaned identifier.
C19_Witness ==
    /\ Called("normalize_components")
    /\ Filled(fn.args[1], "POBox")
    /\ Get(fn.args[1], "USPSBoxID", "") = " 12a "
    /\ Get(fn.args[1], "USPSBoxType", "") = "po box"
    /\ fn.out.po_box = "12A"

\* Every value of mapping d is its own clean_string image.
AllValuesClean(d) == \A k \in DOMAIN d : d[k] = clean_string(StrVal(d[k]))

\* C20: for every token mapping, every value of the mapping
\* normalize_components returns is a cleaned, uppercase string, equal to its
\* own clean_string image, the derived street_name, zip_code and unit
\* included.
C20_NormalizedValuesClean ==
    /\ Called("normalize_components") => AllValuesClean(fn.out)
    /\ AllValuesClean(normalized)

\* C21: standardize_abbreviations is idempotent: for every word (every key
\* and value of the street-type, directional and unit tables, and words in
\* none of them) applying it to its own result returns that result.
C21_AbbreviationsIdempotent ==
    Called("standardize_abbreviations") =>
        standardize_abbreviations(fn.out) = fn.out

\* C21's case: a padded lower-case key of the street-type table was
\* abbreviated, and the abbreviation is not the word itself.
C21_Witness ==
    /\ Called("standardize_abbreviations")
    /\ fn.args[1] = " street "
    /\ fn.out = "ST"

\* The batch command has ended.
Exited == batch.mode = "command" /\ batch.status = "exited"

\* The file the command was given lacks the address column it was told to
\* use (--address-columns, else --address-column) or, nothing being
\* requested or auto-detected, a column named address in any case.
LacksAddressColumn ==
    LET names == SplitComma(PyStr(batch.address_columns))
    IN IF batch.address_columns # NoneVal
       THEN \E i \in 1..Len(names) : StrStrip(names[i]) \notin batch.columns
       ELSE IF batch.address_column # NoneVal
            THEN batch.address_column.s \notin batch.columns
            ELSE /\ ~(batch.auto_combine /\ detect_address_columns(batch.columns) # {})
                 /\ \A col \in batch.columns : StrLower(col) # "address"

\* The input has the extension .csv in any case.
HasCsvExtension == StrLower(SplitExt(batch.input)) = ".csv"

\* C22: the batch command exits with code 1 when the input file has no .csv
\* extension, is missing, or lacks the requested or default address column,
\* and with code 0 when reading, processing and writing all succeed; a
\* sys.exit(1) raised inside the try block leaves the command as it is,
\* without passing through the exception handler.
C22_BatchExitCodes ==
    Exited =>
        /\ (~HasCsvExtension \/ ~batch.exists) =>
              /\ batch.exit_code = 1
              /\ batch.log \in {<<InvalidFormatLine>>, <<MissingFileLine>>}
        /\ (HasCsvExtension /\ batch.readable /\ LacksAddressColumn) =>
              batch.exit_code = 1
        /\ (HasCsvExtension /\ batch.readable /\ ~LacksAddressColumn /\ batch.writable) =>
              batch.exit_code = 0

\* C22's case: the file is missing, sys.exit(1) was raised inside the try
\* block, and the process ended with code 1 and the one log line.
C22_Witness ==
    /\ Exited
    /\ HasCsvExtension
    /\ ~batch.exists
    /\ batch.exception = [class |-> "SystemExit", code |-> 1]
    /\ batch.exit_code = 1
    /\ batch.log = <<MissingFileLine>>

\* c adjusted by the three outcomes of validation outcome v and clamped to
\* [0, 100], in tenths.
AdjustedAndClamped(c, v) ==
    LET sum == c + (IF v.zip_valid THEN 100 ELSE -200)
                 + (IF v.state_valid THEN 100 ELSE -200)
                 + (IF v.is_complete THEN 150 ELSE -250)
    IN IF sum < 0 THEN 0 ELSE IF sum > 1000 THEN 1000 ELSE sum

\* C23: in the pipeline, the confidence validate_address returns for an
\* address is the confidence parse_address gave that address, plus 10 or
\* minus 20 for the ZIP, plus 10 or minus 20 for the state, plus 15 or minus
\* 25 for completeness, clamped to [0, 100].
C23_PipelineConfidence ==
    (ValidatorRan /\ normalized # EmptyDict) =>
        validation_result.confidence
            = AdjustedAndClamped(parsed_result.confidence, validation_result)

\* The check message m reports: "zip", "state", "completeness" or "other".
MessageKind(m) ==
    IF m = "ZIP code is missing" \/ MatchLit(m, 1, "Invalid ZIP code format: ")
    THEN "zip"
    ELSE IF m = "State is missing" \/ MatchLit(m, 1, "Invalid state: ")
         THEN "state"
         ELSE IF MatchLit(m, 1, "Missing required fields: ")
              THEN "completeness" ELSE "other"

\* The issues of validation outcome v are one message per failed check, in
\* the order ZIP, state, completeness, and nothing else.
OneIssuePerFailedCheck(v) ==
    LET failed == (IF v.zip_valid THEN <<>> ELSE <<"zip">>)
                  \o (IF v.state_valid THEN <<>> ELSE <<"state">>)
                  \o (IF v.is_complete THEN <<>> ELSE <<"completeness">>)
    IN /\ Len(v.issues) = Len(failed)
       /\ \A i \in 1..Len(failed) : MessageKind(v.issues[i]) = failed[i]

\* C24: for every components mapping that is not empty, the issues
\* validate_address returns hold exactly one message per failed check and
\* no other entry, in the order ZIP message, state message, completeness
\* message, for direct calls and in the pipeline.
C24_IssuesInOrder ==
    /\ (Called("validate_address") /\ fn.args[1] # EmptyDict) =>
           OneIssuePerFailedCheck(fn.out)
    /\ (ValidatorRan /\ normalized # EmptyDict) =>
           OneIssuePerFailedCheck(validation_result)

\* C24's case: all three checks of a non-empty mapping failed, the ZIP and
\* the state being present but wrong, and there are three issues.
C24_Witness ==
    /\ Called("validate_address")
    /\ Filled(fn.args[1], "zip_code")
    /\ Filled(fn.args[1], "state")
    /\ ~fn.out.zip_valid /\ ~fn.out.state_valid /\ ~fn.out.is_complete
    /\ Len(fn.out.issues) = 3

\* process_batch has returned its results and summary.
BatchReturned == batch.mode = "service" /\ batch.status = "returned"

\* The number of results of the batch that satisfy P.
CountResults(P(_)) ==
    Cardinality({i \in 1..Len(batch.results) : P(batch.results[i])})

\* A response of the service reports a valid address: ZIP valid, state
\* valid and complete.
ReportsValid(r) == r.valid.zip /\ r.valid.state /\ r.valid.is_complete

HasErrors(r) == r.errors # <<>>

\* C25: in the summary process_batch returns, total is the number of input
\* addresses, valid the number of addresses whose result is valid (ZIP
\* valid, state valid and complete), invalid is total minus valid, and
\* errors the number of results with a non-empty errors list.
C25_BatchSummary ==
    BatchReturned =>
        /\ batch.summary.total = Len(batch.rows)
        /\ batch.summary.valid = CountResults(ReportsValid)
        /\ batch.summary.invalid = batch.summary.total - batch.summary.valid
        /\ batch.summary.errors = CountResults(HasErrors)

\* C26: every response of the service's process_single_address, called with
\* return_parsed, return_confidence and return_original all true, holds
\* confidence and original, and holds parsed when the tagger produced
\* tokens, on every return path, the invalid-input path included.
C26_RequestedFieldsPresent ==
    (Done("api") /\ raised = "none") =>
        /\ "confidence" \in DOMAIN result
        /\ "original" \in DOMAIN result
        /\ Get(parsed_result, "parsed", EmptyDict) # EmptyDict =>
               "parsed" \in DOMAIN result

\* Token mapping tokens holds a street name and a directional before or
\* after it.
HasDirectional(tokens) ==
    /\ Filled(tokens, "StreetName")
    /\ Filled(tokens, "StreetNamePreDirectional")
       \/ Filled(tokens, "StreetNamePostDirectional")

\* The street line of the claim: prefix, street name, suffix and street
\* type, each once, abbreviated, joined by single spaces.
EachPartOnce(tokens) ==
    LET abbreviated(label) ==
            IF Filled(tokens, label)
            THEN <<standardize_abbreviations(clean_string(StrVal(tokens[label])))>>
            ELSE <<>>
        street_type ==
            IF Filled(tokens, "StreetNamePostType")
            THEN abbreviated("StreetNamePostType")
            ELSE abbreviated("StreetNamePostModifier")
    IN Join(" ", abbreviated("StreetNamePreDirectional")
                 \o <<clean_string(StrVal(tokens.StreetName))>>
                 \o abbreviated("StreetNamePostDirectional")
                 \o street_type)

\* C27: for tokens that hold a street name with a directional prefix and/or
\* suffix, the formatted street_name of the record
\* create_formatted_address_result returns is prefix, street name, suffix
\* and abbreviated street type joined by single spaces, each directional
\* appearing once.
C27_DirectionalOnce ==
    /\ (/\ Called("create_formatted_address_result")
        /\ HasDirectional(Get(fn.args[2], "parsed", EmptyDict))) =>
           fn.out.formatted.street_name = EachPartOnce(fn.args[2].parsed)
    /\ (/\ Done("cli") /\ raised = "none"
        /\ HasDirectional(parsed_result.parsed)) =>
           result.formatted.street_name = EachPartOnce(parsed_result.parsed)

\* C28: after any sequence of calls of process_single_address made one
\* after the other on one service, alone or by process_batch, total_errors
\* equals total_invalid: every address counted invalid is counted as an
\* error and no valid address is.
C28_ErrorsEqualInvalid == stats.total_errors = stats.total_invalid

\* C28's case: one service has processed a valid address, an address with
\* a failed check and a rejected input.
C28_Witness ==
    /\ batch.mode = "service"
    /\ stats.total_processed = 3
    /\ stats.total_valid = 1
    /\ stats.total_invalid = 2
    /\ stats.total_errors = 2
    /\ \E i \in 1..Len(batch.results) :
          batch.results[i].errors = <<"Invalid input: empty or non-string address">>

\* parse_address is running: it has been called and has not returned.
InParseAddress == pc \in {"tag", "retry"}

\* C29: every call of parse_address returns, after at most four calls of
\* the tagger (the first and at most one per retry strategy); the retry
\* ladder is entered only when the first call raised the ambiguous-labeling
\* error, and any other exception of the first call gives an error result
\* after that one call.
C29_ParseTerminates ==
    /\ [](/\ Len(tag_log) <= 4
          /\ Len(tag_log) >= 2 => tag_log[1].kind = "repeated"
          /\ (tag_log # <<>> /\ tag_log[1].kind = "error") =>
                /\ Len(tag_log) = 1
                /\ ~InParseAddress
                /\ parsed_result.error # NoneVal
                /\ parsed_result.parsed = EmptyDict)
    /\ (InParseAddress ~> ~InParseAddress)

\* C29's case: the tagger was called four times, the last strategy
\* succeeded and parse_address returned its tokens.
C29_Witness ==
    /\ Len(tag_log) = 4
    /\ tag_log[1].kind = "repeated"
    /\ tag_log[4].kind = "ok"
    /\ ~InParseAddress
    /\ parsed_result.parsing_strategy = "alternative_3"

Middleware == batch.mode = "middleware"

\* The requests of client c recorded less than a minute before `now`.
Recent(request_counts, c, now) ==
    IF c \in DOMAIN request_counts
    THEN Cardinality({i \in DOMAIN request_counts[c] :
                         now - request_counts[c][i] < WindowSeconds})
    ELSE 0

\* What one request does to the records, against the records before it.
RequestStep ==
    LET before == batch
        after == batch'
        c == after.client_ip
        now == after.current_time
        had == Recent(before.request_counts, c, now)
    IN /\ after.rejected <=> had = before.requests_per_minute
       /\ Recent(after.request_counts, c, now) = had + (IF after.rejected THEN 0 ELSE 1)
       /\ \A d \in Clients \ {c} :
             /\ d \in DOMAIN after.request_counts <=> d \in DOMAIN before.request_counts
             /\ d \in DOMAIN before.request_counts =>
                   after.request_counts[d] = before.request_counts[d]

\* C30: with a limit of at least 1 and times that do not go backwards, no
\* client ever has more than requests_per_minute recorded requests within
\* the last 60 seconds; a request is rejected exactly when that many of its
\* client's requests were already recorded within the last 60 seconds; a
\* rejected request is not recorded (an accepted one is); and the records of
\* every other client stay as they were.
C30_RateLimit ==
    /\ [](Middleware =>
             \A c \in Clients :
                Recent(batch.request_counts, c, batch.current_time)
                    <= batch.requests_per_minute)
    /\ [][(Middleware /\ Middleware') => RequestStep]_all_vars

\* A request was rejected at a limit of two while both clients have records.
C30_Witness ==
    /\ Middleware
    /\ batch.rejected
    /\ batch.requests_per_minute = 2
    /\ DOMAIN batch.request_counts = Clients
    /\ Len(batch.request_counts[batch.client_ip]) = 2
    /\ batch.current_time >= WindowSeconds

=============================================================================
